---- MODULE Spec2Model ----
(***************************************************************************)
(* Model of the EventAI planning core:                                     *)
(*   - scheduler/optimizer.py          Optimizer.optimize_schedule         *)
(*   - agents/event_planner_agent.py   EventPlannerAgent.plan_event (the   *)
(*                                     call of the optimizer and the total)*)
(*   - agents/vendor_discovery_agent.py _matches_filters, _calculate_score *)
(*                                                                         *)
(* Money is in whole units (PKR for the optimizer alone, 500 PKR for the   *)
(* discovery agent and for plan_event as a whole).  The optimizer's        *)
(* ratings are whole stars, the discovery agent's are tenths of a star     *)
(* (4.5 is 45).  A score is the                                            *)
(* exact rational <<numerator, denominator>> of the float the code         *)
(* computes; on the small integers used here float division and comparison *)
(* agree with the rationals.                                               *)
(***************************************************************************)
EXTENDS Integers, Sequences, FiniteSets, Bags, TLC

\* ------------------------------------------------------------------ bounds
MaxVendors == 2
MaxServices == 2
MaxPrice == 2
MaxBudget == 3
MaxRuns == 2
MaxPricing == 3
MaxAreas == 2
MaxKeywords == 2
MaxPreferences == 2
MaxRows == 2
MaxApiVendors == 2
MaxMessages == 3
MaxCalls == 3
MaxRequests == 2
MaxCallers == 3
MaxOff == 1
MaxCosts == 2
MaxCost == 2
MaxToolBudget == 3

\* --------------------------------------------------------------- rationals
\* a float value n/d, d > 0
Frac(n, d) == <<n, d>>

RGt(a, b) == a[1] * b[2] > b[1] * a[2]

RLe(a, b) == a[1] * b[2] <= b[1] * a[2]

REq(a, b) == a[1] * b[2] = b[1] * a[2]

RECURSIVE GCD(_, _)
GCD(m, n) == IF n = 0 THEN m ELSE GCD(n, m % n)

\* n/d in lowest terms
Reduced(f) ==
    LET g == GCD(IF f[1] < 0 THEN -f[1] ELSE f[1], f[2])
    IN  IF g = 0 THEN f ELSE <<f[1] \div g, f[2] \div g>>

RAdd(a, b) == Reduced(<<a[1] * b[2] + b[1] * a[2], a[2] * b[2]>>)

RSub(a, b) == Reduced(<<a[1] * b[2] - b[1] * a[2], a[2] * b[2]>>)

RMul(a, b) == Reduced(<<a[1] * b[1], a[2] * b[2]>>)

\* a / b for b > 0
RDiv(a, b) == Reduced(<<a[1] * b[2], a[2] * b[1]>>)

RMin(a, b) == IF RLe(a, b) THEN a ELSE b

RMax(a, b) == IF RLe(a, b) THEN b ELSE a

Zero == <<0, 1>>

One == <<1, 1>>

\* ------------------------------------------------------------ vendor pool
\* required_categories = ['venue', 'catering']
required_categories == <<"venue", "catering">>

\* vendor.get('category', 'other'): a vendor without the key, or of any
\* category that is not required ("florist", ...), is grouped apart.
Categories == {"venue", "catering", "other"}

\* A vendor dict without a 'rating' key.
NoRating == -1

\* vendor.get('rating', 3.0)
DefaultRating == 3

\* legacy optimizer line 42: price = 1000.0, in units of 500 PKR
LegacyPrice == 2

Ratings == {NoRating, 0, 2, 4}

Prices == 0 .. MaxPrice

\* service dicts {'id', 'price'}; a service's id is its position in the list
ServiceLists == UNION {[1 .. n -> Prices] : n \in 0 .. MaxServices}

\* The vendor dicts the API and manual handlers return.
VendorDicts ==
    [kind : {"dict"}, category : Categories, rating : Ratings, services : ServiceLists]

\* A VendorSelection object, as VendorDiscoveryAgent.search_vendors returns
\* them and plan_event puts them in the list it hands to the optimizer.  A
\* pydantic model has no .get, whatever its fields hold.
VendorSelectionObject ==
    [kind |-> "object", category |-> "other", rating |-> NoRating, services |-> <<>>]

PoolEntries == VendorDicts \cup {VendorSelectionObject}

Pools == UNION {[1 .. n -> PoolEntries] : n \in 0 .. MaxVendors}

Budgets == 0 .. MaxBudget

\* ------------------------------------------------------------------- state
VARIABLES
    available_vendors,      \* argument of optimize_schedule (a vendor's id is its index)
    budget,                 \* event_details.budget
    pc,                     \* position in plan_event / optimize_schedule
    vendors_by_category,    \* category -> sequence of vendor ids
    ci,                     \* index of the category being visited
    vi,                     \* index in candidates of the vendor being visited
    si,                     \* index in vendor['services'] of the service being visited
    best_vendor_selection,  \* <<>> for None, else <<VendorSelection>>
    best_score,
    remaining_budget,
    selected_vendors,
    total_cost,             \* plan_event's total_cost; -1 before it is computed
    runs,                   \* calls of optimize_schedule made on this Optimizer
    previous_result,        \* what the previous call returned
    vendor_profile,         \* the VendorProfile handed to _matches_filters / _calculate_score
    event_requirements,     \* the EventRequirements handed to them
    search_keywords,        \* the keyword list handed to _calculate_score
    phase,                  \* which call of the discovery agent was made last
    filter_result,          \* <<>> before _matches_filters returned, else <<its result>>
    previous_filter,        \* <<>>, or <<[requirements, result]>> of the call before
    match_score,            \* what _calculate_score returned
    price_score,            \* the price_score _calculate_score computed on the way
    keyword_result,         \* what _extract_keywords returned, as a bag of strings
    db_mode,                \* how the vendor repository stands (see DbModes)
    db_table,               \* the rows of the vendors table
    top_k,                  \* argument of search_vendors
    sample_vendors,         \* the module-level list SAMPLE_VENDORS
    db_answer,              \* <<>>, or <<what the repository's search_vendors gave>>
    vendors,                \* search_vendors' list `vendors`
    scored_vendors,         \* its list of (vendor, score)
    results,                \* what it returns
    search_pc,              \* position in search_vendors
    planner,                \* which EventPlannerAgent runs: "packages" or "legacy"
    discovery_agent,        \* whether self.discovery_agent is set
    api_catalogue,          \* what VendorPortalClient.list_vendors gives
    manual_vendors,         \* ManualVendorHandler.manual_vendors
    vendor_origin,          \* for each entry of plan_event's `vendors`, where it came from
    app,                    \* which chat application runs: "legacy" or "packages"
    chat_pc,                \* position of the chat in on_message
    handled,                \* messages the chat has taken so far
    log,                    \* what on_message did for the current message, in order
    heap,                   \* the list objects of the server: heap[id] is the list's content
    sessions,               \* _sessions: session id -> id of its list, 0 when it has no entry
    pending,                \* for each thread, the calls it still has to make
    call_pc,                \* for each thread, its position in get_session / add_to_session
    session,                \* for each thread, the local `session`: the id of a list
    trimmed,                \* for each thread, the id of the list session[-20:] made
    added,                  \* for each session id, the messages passed to add_to_session so far
    api_key,                \* AI_SERVICE_API_KEY
    request,                \* the request being served: its endpoint and X-API-Key header
    auth_pc,                \* how far the request got
    status,                 \* the status of the last response, 0 before any
    agent_runs,             \* how many agent runs the server has started
    served,                 \* how many requests the server has taken
    tool_input,             \* the arguments a function tool is called with
    tool_output,            \* <<>>, or <<what the tool returned>>
    tool_pc,                \* "idle", "called" or "returned"
    portal_client,          \* vendor_tools._client: 0 for None, else the id of an instance
    api_handler,            \* vendor_tools._api_handler, likewise
    manual_handler,         \* vendor_tools._manual_handler, likewise
    instances,              \* how many instances have been constructed
    get_pc,                 \* for each caller, its position in get_vendor_details / _get_handlers
    got                     \* for each caller, <<>> or <<the pair _get_handlers returned>>

optimizer_vars ==
    <<available_vendors, budget, pc, vendors_by_category, ci, vi, si,
      best_vendor_selection, best_score, remaining_budget, selected_vendors,
      total_cost, runs, previous_result>>

discovery_vars ==
    <<vendor_profile, event_requirements, search_keywords, phase, filter_result,
      previous_filter, match_score, price_score, keyword_result>>

search_vars ==
    <<db_mode, db_table, top_k, sample_vendors, db_answer, vendors, scored_vendors,
      results, search_pc>>

planner_vars == <<planner, discovery_agent, api_catalogue, manual_vendors, vendor_origin>>

chat_vars == <<app, chat_pc, handled, log>>

session_vars == <<heap, sessions, pending, call_pc, session, trimmed, added>>

auth_vars == <<api_key, request, auth_pc, status, agent_runs, served>>

tool_vars == <<tool_input, tool_output, tool_pc>>

handler_vars == <<portal_client, api_handler, manual_handler, instances, get_pc, got>>

service_vars == <<session_vars, auth_vars, tool_vars, handler_vars>>

vars == <<optimizer_vars, discovery_vars, search_vars, planner_vars, chat_vars, service_vars>>

\* ------------------------------------------------------------- optimizer
\* vendor.get('rating', 3.0)
Rating(vendor) == IF vendor.rating = NoRating THEN DefaultRating ELSE vendor.rating

\* rating * price in place of rating / price
ServiceScoreProduct(rating, price) == IF price > 0 THEN Frac(rating * price, 1) ELSE Frac(0, 1)

\* rating / price without the guard: a zero price gives an infinite score
ServiceScoreUnguarded(rating, price) == Frac(rating, price)

\* score = rating / price if price > 0 else 0
ServiceScore(rating, price) == IF price > 0 THEN Frac(rating, price) ELSE Frac(0, 1)

\* the budget check left out
AffordableUnchecked(price, remaining) == TRUE

\* if price > remaining_budget: continue
Affordable(price, remaining) == ~(price > remaining)

\* a score of 0 never taken
BetterAndPositive(score, best) == RGt(score, best) /\ RGt(score, Frac(0, 1))

\* >= in place of >
BetterOrEqual(score, best) == ~RGt(best, score)

\* if score > best_score
Better(score, best) == RGt(score, best)

\* VendorSelection(vendor_id=..., service_id=..., cost=price,
\*                 reason=f"Best value for {category}")
VendorSelection(vendor_id, service_id, price, category) ==
    [vendor_id |-> vendor_id, service_id |-> service_id, cost |-> price,
     reason |-> <<"Best value for", category>>]

\* remaining_budget kept on the Optimizer between calls
EntryBudgetKept(event_budget, left, calls) == IF calls = 0 THEN event_budget ELSE left

\* line 14: remaining_budget = event_details.budget, a local of the call: what an
\* earlier call on the same Optimizer left behind (`left`) is not read.
EntryBudget(event_budget, left, calls) == event_budget

\* grouping that does not look at the category
GroupOfAnyCategory(pool, cat) == [i \in 1 .. Len(pool) |-> i]

\* The grouping loop: the ids of the vendors of one category, in pool order.
GroupOf(pool, cat) ==
    SelectSeq([i \in 1 .. Len(pool) |-> i], LAMBDA i : pool[i].category = cat)

\* candidates = vendors_by_category.get(category, [])
Candidates == vendors_by_category[required_categories[ci]]

RECURSIVE SumCost(_)
\* sum([v.cost for v in selected_vendors])
SumCost(sel) == IF sel = <<>> THEN 0 ELSE sel[1].cost + SumCost(Tail(sel))

\* ------------------------------------------------------- discovery agent
\* Strings are sequences of characters, so that lower() and `in` are computed.
LowerChar(c) ==
    CASE c = "A" -> "a"
      [] c = "B" -> "b"
      [] c = "C" -> "c"
      [] c = "D" -> "d"
      [] c = "E" -> "e"
      [] c = "F" -> "f"
      [] c = "G" -> "g"
      [] c = "H" -> "h"
      [] c = "I" -> "i"
      [] c = "J" -> "j"
      [] c = "K" -> "k"
      [] c = "L" -> "l"
      [] c = "M" -> "m"
      [] c = "N" -> "n"
      [] c = "O" -> "o"
      [] c = "P" -> "p"
      [] c = "Q" -> "q"
      [] c = "R" -> "r"
      [] c = "S" -> "s"
      [] c = "T" -> "t"
      [] c = "U" -> "u"
      [] c = "V" -> "v"
      [] c = "W" -> "w"
      [] c = "X" -> "x"
      [] c = "Y" -> "y"
      [] c = "Z" -> "z"
      [] OTHER -> c

\* str.lower()
Lower(str) == [i \in 1 .. Len(str) |-> LowerChar(str[i])]

\* x in list
InList(x, list) == \E i \in 1 .. Len(list) : list[i] = x

\* needle in haystack, on strings
InString(needle, haystack) ==
    \E i \in 0 .. Len(haystack) - Len(needle) :
        \A j \in 1 .. Len(needle) : haystack[i + j] = needle[j]

Wildcard == <<"a", "l", "l">>

Lhr == <<"L", "h", "r">>

AreaStrings == {Lhr, Lower(Lhr), <<"k", "h", "i">>, Wildcard, <<"A", "L", "L">>}

\* Optional[str]: <<>> is None, <<str>> a string (the empty string included)
Locations == {<<>>, <<<<>>>>, <<Lhr>>, <<Lower(Lhr)>>, <<<<"L", "H", "R">>>>, <<<<"K", "h", "i">>>>}

AreaLists == UNION {[1 .. n -> AreaStrings] : n \in 0 .. MaxAreas}

KeywordStrings == {<<>>, <<"d", "j">>, <<"j", " ", "v">>, <<"x">>}

KeywordLists == UNION {[1 .. n -> KeywordStrings] : n \in 0 .. MaxKeywords}

\* vendor.rating / 5.0
FullRating == 5

\* the four weights, in tenths
KeywordWeight == 4

RatingWeight == 3

PriceWeight == 2

AvailabilityWeight == 1

\* price_score = 0.1 when there is no budget
NoBudgetPriceScore == 1

\* the text fields of the VendorProfile used below
PlainVendor ==
    [vendor_id |-> "vendor_1", is_available |-> TRUE, pricing_min |-> 0, pricing_max |-> 0,
     rating |-> 0, service_areas |-> <<>>, keywords |-> <<>>,
     description |-> <<>>, category |-> <<"v">>, business_name |-> <<>>]

PlainRequirements == [budget |-> 0, location |-> <<>>, event_type |-> <<>>, preferences |-> <<>>]

\* the profiles and requirements _matches_filters is tried on
FilterVendors ==
    {[PlainVendor EXCEPT !.is_available = a, !.pricing_min = p, !.pricing_max = p,
                         !.service_areas = s] :
        a \in BOOLEAN, p \in 0 .. MaxPricing, s \in AreaLists}

FilterRequirements ==
    {[PlainRequirements EXCEPT !.budget = b, !.location = l] : b \in Budgets, l \in Locations}

\* the profiles, requirements and keyword lists _calculate_score is tried on
ScoreVendors ==
    {[PlainVendor EXCEPT !.is_available = a, !.pricing_min = lo, !.pricing_max = hi,
                         !.rating = r, !.keywords = k, !.description = d,
                         !.business_name = n] :
        a \in BOOLEAN, lo \in 0 .. MaxPricing, hi \in 0 .. MaxPricing,
        r \in {10 * stars : stars \in 0 .. FullRating},
        k \in {<<>>, <<<<"D", "J">>, <<>>>>}, d \in {<<>>, <<"d", "j">>},
        n \in {<<>>, <<"j">>}}

ScoreRequirements == {[PlainRequirements EXCEPT !.budget = b] : b \in Budgets}

\* if requirements.budget: a float is true unless it is 0
BudgetGiven(b) == b # 0

\* if requirements.location: None and "" are false
LocationGiven(location) == location # <<>> /\ location[1] # <<>>

\* >= in place of >
OverBudgetOrEqual(pricing_min, b) == pricing_min >= b

\* vendor.pricing_min > requirements.budget
OverBudget(pricing_min, b) == pricing_min > b

\* areas_lower = [a.lower() for a in vendor.service_areas]
AreasLower(v) == [i \in 1 .. Len(v.service_areas) |-> Lower(v.service_areas[i])]

\* location_lower not in areas_lower and "all" not in areas_lower
OutsideAreas(location, v) ==
    /\ ~InList(Lower(location[1]), AreasLower(v))
    /\ ~InList(Wildcard, AreasLower(v))

\* _matches_filters
MatchesFilters(v, r) ==
    IF ~v.is_available
    THEN FALSE
    ELSE IF BudgetGiven(r.budget) /\ OverBudget(v.pricing_min, r.budget)
    THEN FALSE
    ELSE IF LocationGiven(r.location) /\ OutsideAreas(r.location, v)
    THEN FALSE
    ELSE TRUE

\* lines 37-80, the module-level list (prices in units of 500 PKR, ratings in
\* tenths of a star)
SAMPLE_VENDORS ==
    <<
    [vendor_id |-> "catering_001", is_available |-> TRUE, pricing_min |-> 100,
     pricing_max |-> 1000,
     rating |-> 45,
     business_name |-> <<"L", "a", "h", "o", "r", "e", " ", "C", "a", "t", "e", "r", "i",
                       "n", "g", " ", "E", "x", "c", "e", "l", "l", "e", "n", "c", "e">>,
     category |-> <<"c", "a", "t", "e", "r", "i", "n", "g">>,
     description |-> <<"P", "r", "e", "m", "i", "u", "m", " ", "P", "a", "k", "i", "s", "t",
                     "a", "n", "i", " ", "c", "u", "i", "s", "i", "n", "e", " ", "f", "o",
                     "r", " ", "w", "e", "d", "d", "i", "n", "g", "s", " ", "a", "n", "d",
                     " ", "e", "v", "e", "n", "t", "s">>,
     service_areas |-> <<<<"L", "a", "h", "o", "r", "e">>, <<"I", "s", "l", "a", "m", "a",
                       "b", "a", "d">>>>,
     keywords |-> <<<<"w", "e", "d", "d", "i", "n", "g">>, <<"m", "e", "h", "n", "d", "i">>,
                  <<"w", "a", "l", "i", "m", "a">>, <<"c", "a", "t", "e", "r", "i", "n",
                  "g">>, <<"f", "o", "o", "d">>, <<"t", "r", "a", "d", "i", "t", "i", "o",
                  "n", "a", "l">>>>],
    [vendor_id |-> "venue_001", is_available |-> TRUE, pricing_min |-> 400, pricing_max |-> 1600,
     rating |-> 48,
     business_name |-> <<"R", "o", "y", "a", "l", " ", "M", "a", "r", "q", "u", "e", "e",
                       " ", "L", "a", "h", "o", "r", "e">>,
     category |-> <<"v", "e", "n", "u", "e">>,
     description |-> <<"L", "u", "x", "u", "r", "y", " ", "w", "e", "d", "d", "i", "n", "g",
                     " ", "v", "e", "n", "u", "e", " ", "w", "i", "t", "h", " ", "l", "a",
                     "w", "n", "s", " ", "a", "n", "d", " ", "m", "a", "r", "q", "u", "e",
                     "e", "s">>,
     service_areas |-> <<<<"L", "a", "h", "o", "r", "e">>>>,
     keywords |-> <<<<"w", "e", "d", "d", "i", "n", "g">>, <<"v", "e", "n", "u", "e">>,
                  <<"m", "a", "r", "q", "u", "e", "e">>, <<"h", "a", "l", "l">>, <<"l", "a",
                  "w", "n">>, <<"m", "e", "h", "n", "d", "i">>, <<"b", "a", "r", "a", "a",
                  "t">>>>],
    [vendor_id |-> "photo_001", is_available |-> TRUE, pricing_min |-> 200, pricing_max |-> 800,
     rating |-> 47,
     business_name |-> <<"M", "o", "m", "e", "n", "t", "s", " ", "P", "h", "o", "t", "o",
                       "g", "r", "a", "p", "h", "y">>,
     category |-> <<"p", "h", "o", "t", "o", "g", "r", "a", "p", "h", "y">>,
     description |-> <<"W", "e", "d", "d", "i", "n", "g", " ", "p", "h", "o", "t", "o", "g",
                     "r", "a", "p", "h", "y", " ", "a", "n", "d", " ", "v", "i", "d", "e",
                     "o", "g", "r", "a", "p", "h", "y">>,
     service_areas |-> <<<<"L", "a", "h", "o", "r", "e">>, <<"I", "s", "l", "a", "m", "a",
                       "b", "a", "d">>, <<"K", "a", "r", "a", "c", "h", "i">>>>,
     keywords |-> <<<<"p", "h", "o", "t", "o", "g", "r", "a", "p", "h", "y">>, <<"v", "i",
                  "d", "e", "o">>, <<"d", "r", "o", "n", "e">>, <<"w", "e", "d", "d", "i",
                  "n", "g">>, <<"p", "h", "o", "t", "o">>, <<"a", "l", "b", "u", "m">>>>],
    [vendor_id |-> "decor_001", is_available |-> TRUE, pricing_min |-> 160, pricing_max |-> 700,
     rating |-> 46,
     business_name |-> <<"F", "l", "o", "r", "a", "l", " ", "D", "r", "e", "a", "m", "s",
                       " ", "D", "e", "c", "o", "r", "a", "t", "i", "o", "n">>,
     category |-> <<"d", "e", "c", "o", "r", "a", "t", "i", "o", "n">>,
     description |-> <<"E", "v", "e", "n", "t", " ", "d", "e", "c", "o", "r", "a", "t", "i",
                     "o", "n", " ", "a", "n", "d", " ", "f", "l", "o", "r", "a", "l", " ",
                     "a", "r", "r", "a", "n", "g", "e", "m", "e", "n", "t", "s">>,
     service_areas |-> <<<<"L", "a", "h", "o", "r", "e">>, <<"I", "s", "l", "a", "m", "a",
                       "b", "a", "d">>>>,
     keywords |-> <<<<"d", "e", "c", "o", "r", "a", "t", "i", "o", "n">>, <<"f", "l", "o",
                  "w", "e", "r", "s">>, <<"d", "e", "c", "o", "r">>, <<"w", "e", "d", "d",
                  "i", "n", "g">>, <<"t", "h", "e", "m", "e">>, <<"s", "t", "a", "g",
                  "e">>>>],
    [vendor_id |-> "music_001", is_available |-> TRUE, pricing_min |-> 80, pricing_max |-> 300,
     rating |-> 44,
     business_name |-> <<"B", "e", "a", "t", " ", "M", "a", "s", "t", "e", "r", "s", " ",
                       "D", "J">>,
     category |-> <<"m", "u", "s", "i", "c">>,
     description |-> <<"D", "J", " ", "s", "e", "r", "v", "i", "c", "e", "s", " ", "a", "n",
                     "d", " ", "l", "i", "v", "e", " ", "b", "a", "n", "d", " ", "e", "n",
                     "t", "e", "r", "t", "a", "i", "n", "m", "e", "n", "t">>,
     service_areas |-> <<<<"L", "a", "h", "o", "r", "e">>, <<"K", "a", "r", "a", "c", "h",
                       "i">>, <<"I", "s", "l", "a", "m", "a", "b", "a", "d">>>>,
     keywords |-> <<<<"d", "j">>, <<"m", "u", "s", "i", "c">>, <<"b", "a", "n", "d">>,
                  <<"e", "n", "t", "e", "r", "t", "a", "i", "n", "m", "e", "n", "t">>,
                  <<"s", "o", "u", "n", "d">>, <<"p", "a", "r", "t", "y">>>>],
    [vendor_id |-> "catering_002", is_available |-> TRUE, pricing_min |-> 50, pricing_max |-> 400,
     rating |-> 43,
     business_name |-> <<"K", "a", "r", "a", "c", "h", "i", " ", "B", "B", "Q", " ", "H",
                       "o", "u", "s", "e">>,
     category |-> <<"c", "a", "t", "e", "r", "i", "n", "g">>,
     description |-> <<"B", "B", "Q", " ", "a", "n", "d", " ", "s", "t", "r", "e", "e", "t",
                     " ", "f", "o", "o", "d", " ", "c", "a", "t", "e", "r", "i", "n", "g",
                     " ", "f", "o", "r", " ", "c", "a", "s", "u", "a", "l", " ", "e", "v",
                     "e", "n", "t", "s">>,
     service_areas |-> <<<<"K", "a", "r", "a", "c", "h", "i">>>>,
     keywords |-> <<<<"b", "b", "q">>, <<"c", "a", "t", "e", "r", "i", "n", "g">>, <<"p",
                  "a", "r", "t", "y">>, <<"b", "i", "r", "t", "h", "d", "a", "y">>, <<"c",
                  "a", "s", "u", "a", "l">>, <<"o", "u", "t", "d", "o", "o", "r">>>>]
    >>

DiscoveryIdle ==
    /\ vendor_profile = PlainVendor
    /\ event_requirements = PlainRequirements
    /\ search_keywords = <<>>
    /\ phase = "idle"
    /\ filter_result = <<>>
    /\ previous_filter = <<>>
    /\ match_score = <<0, 1>>
    /\ price_score = <<0, 1>>
    /\ keyword_result = EmptyBag

OptimizerIdle ==
    /\ available_vendors = <<>>
    /\ budget = 0
    /\ pc = "idle"
    /\ vendors_by_category = [c \in Categories |-> <<>>]
    /\ ci = 0
    /\ vi = 0
    /\ si = 0
    /\ best_vendor_selection = <<>>
    /\ best_score = Frac(-1, 1)
    /\ remaining_budget = 0
    /\ selected_vendors = <<>>
    /\ total_cost = -1
    /\ runs = 0
    /\ previous_result = <<>>

\* manual_vendor_handler lines 6-21: the two entries, with what the planner
\* reads of them.  1500 and 500 PKR are 3 and 1; neither has a rating; "florist"
\* is no required category and stands with "other".
MANUAL_VENDORS ==
    <<[name |-> <<"G", "r", "a", "n", "d", " ", "H", "a", "l", "l", " ", "(", "M", "a", "n", "u", "a", "l", ")">>,
       category |-> "venue", rating |-> NoRating, services |-> <<3>>],
      [name |-> <<"L", "o", "c", "a", "l", " ", "F", "l", "o", "r", "i", "s", "t", " ", "(", "M", "a", "n", "u", "a", "l", ")">>,
       category |-> "other", rating |-> NoRating, services |-> <<1>>]>>

PlannerIdle ==
    /\ planner = "packages"
    /\ discovery_agent = FALSE
    /\ api_catalogue = <<>>
    /\ manual_vendors = MANUAL_VENDORS
    /\ vendor_origin = <<>>

\* the threads of the server's pool that are followed
Threads == {1, 2}

SessionIds == {"s1", "s2"}

\* the server has just started and no request is being served
SessionsIdle ==
    /\ heap = <<>>
    /\ sessions = [sid \in SessionIds |-> 0]
    /\ pending = [t \in Threads |-> <<>>]
    /\ call_pc = [t \in Threads |-> "idle"]
    /\ session = [t \in Threads |-> 0]
    /\ trimmed = [t \in Threads |-> 0]
    /\ added = [sid \in SessionIds |-> <<>>]

\* no request has come in
AuthIdle ==
    /\ api_key = ""
    /\ request = [endpoint |-> "/health", header |-> <<>>]
    /\ auth_pc = "waiting"
    /\ status = 0
    /\ agent_runs = 0
    /\ served = 0

\* no function tool has been called
ToolsIdle ==
    /\ tool_input = <<>>
    /\ tool_output = <<>>
    /\ tool_pc = "idle"

\* the callers of _get_handlers that are followed
Callers == 1 .. MaxCallers

\* vendor_tools lines 47-49, and nobody calling
HandlersIdle ==
    /\ portal_client = 0
    /\ api_handler = 0
    /\ manual_handler = 0
    /\ instances = 0
    /\ get_pc = [c \in Callers |-> "idle"]
    /\ got = [c \in Callers |-> <<>>]

ServiceIdle ==
    /\ SessionsIdle
    /\ AuthIdle
    /\ ToolsIdle
    /\ HandlersIdle

\* no chat is open
ChatIdle ==
    /\ app = "legacy"
    /\ chat_pc = "closed"
    /\ handled = 0
    /\ log = <<>>

SearchIdle ==
    /\ db_mode = "off"
    /\ db_table = <<>>
    /\ top_k = 5
    /\ sample_vendors = SAMPLE_VENDORS
    /\ db_answer = <<>>
    /\ vendors = <<>>
    /\ scored_vendors = <<>>
    /\ results = <<>>
    /\ search_pc = "idle"

Init ==
    /\ PlannerIdle
    /\ ChatIdle
    /\ ServiceIdle
    /\ SearchIdle
    /\ DiscoveryIdle
    /\ available_vendors \in Pools
    /\ budget \in Budgets
    /\ pc = "plan_event"
    /\ vendors_by_category = [c \in Categories |-> <<>>]
    /\ ci = 0
    /\ vi = 0
    /\ si = 0
    /\ best_vendor_selection = <<>>
    /\ best_score = Frac(-1, 1)
    /\ remaining_budget = 0
    /\ selected_vendors = <<>>
    /\ total_cost = -1
    /\ runs = 0
    /\ previous_result = <<>>

\* plan_event line 54: optimize_schedule(event_details, vendors) if vendors else []
\* optimize_schedule lines 13-14
CallOptimizer ==
    /\ pc = "plan_event"
    /\ IF available_vendors = <<>>
       THEN /\ pc' = "returned"
            /\ UNCHANGED <<remaining_budget, runs>>
       ELSE /\ pc' = "group"
            /\ remaining_budget' = EntryBudget(budget, remaining_budget, runs)
            /\ runs' = runs + 1
    /\ selected_vendors' = <<>>
    /\ UNCHANGED <<available_vendors, budget, vendors_by_category, ci, vi, si,
                   best_vendor_selection, best_score, total_cost, previous_result>>
    /\ UNCHANGED <<discovery_vars, search_vars, planner_vars, chat_vars, service_vars>>

\* lines 17-22: vendor.get(...) raises AttributeError on the first entry that
\* is not a dict
GroupVendors ==
    /\ pc = "group"
    /\ IF \E i \in 1 .. Len(available_vendors) : available_vendors[i].kind # "dict"
       THEN /\ pc' = "raised"
            /\ UNCHANGED <<vendors_by_category, ci>>
       ELSE /\ vendors_by_category' = [c \in Categories |-> GroupOf(available_vendors, c)]
            /\ ci' = 1
            /\ pc' = "category"
    /\ UNCHANGED <<available_vendors, budget, vi, si, best_vendor_selection, best_score,
                   remaining_budget, selected_vendors, total_cost, runs, previous_result>>
    /\ UNCHANGED <<discovery_vars, search_vars, planner_vars, chat_vars, service_vars>>

\* lines 27-33 and the return of line 60
VisitCategory ==
    /\ pc = "category"
    /\ IF ci > Len(required_categories)
       THEN /\ pc' = "returned"
            /\ UNCHANGED <<ci, vi, best_vendor_selection, best_score>>
       ELSE IF Candidates = <<>>
       THEN /\ ci' = ci + 1
            /\ UNCHANGED <<pc, vi, best_vendor_selection, best_score>>
       ELSE /\ best_vendor_selection' = <<>>
            /\ best_score' = Frac(-1, 1)
            /\ vi' = 1
            /\ pc' = "vendor"
            /\ UNCHANGED ci
    /\ UNCHANGED <<available_vendors, budget, vendors_by_category, si, remaining_budget,
                   selected_vendors, total_cost, runs, previous_result>>
    /\ UNCHANGED <<discovery_vars, search_vars, planner_vars, chat_vars, service_vars>>

\* lines 35-37
VisitVendor ==
    /\ pc = "vendor"
    /\ IF vi > Len(Candidates)
       THEN /\ pc' = "select"
            /\ UNCHANGED <<vi, si>>
       ELSE IF available_vendors[Candidates[vi]].services = <<>>
       THEN /\ vi' = vi + 1
            /\ UNCHANGED <<pc, si>>
       ELSE /\ si' = 1
            /\ pc' = "service"
            /\ UNCHANGED vi
    /\ UNCHANGED <<available_vendors, budget, vendors_by_category, ci,
                   best_vendor_selection, best_score, remaining_budget,
                   selected_vendors, total_cost, runs, previous_result>>
    /\ UNCHANGED <<discovery_vars, search_vars, planner_vars, chat_vars, service_vars>>

\* lines 39-54
VisitService ==
    /\ pc = "service"
    /\ LET vendor == available_vendors[Candidates[vi]]
       IN  IF si > Len(vendor.services)
           THEN /\ vi' = vi + 1
                /\ pc' = "vendor"
                /\ UNCHANGED <<si, best_vendor_selection, best_score>>
           ELSE LET price == vendor.services[si]
                    score == ServiceScore(Rating(vendor), price)
                IN  /\ si' = si + 1
                    /\ UNCHANGED <<vi, pc>>
                    /\ IF Affordable(price, remaining_budget) /\ Better(score, best_score)
                       THEN /\ best_score' = score
                            /\ best_vendor_selection' =
                                 <<VendorSelection(Candidates[vi], si, price,
                                                   required_categories[ci])>>
                       ELSE UNCHANGED <<best_vendor_selection, best_score>>
    /\ UNCHANGED <<available_vendors, budget, vendors_by_category, ci, remaining_budget,
                   selected_vendors, total_cost, runs, previous_result>>
    /\ UNCHANGED <<discovery_vars, search_vars, planner_vars, chat_vars, service_vars>>

\* the category loop never moving on
SelectBestStaying ==
    /\ pc = "select"
    /\ pc' = "category"
    /\ UNCHANGED <<available_vendors, budget, vendors_by_category, ci, vi, si,
                   best_vendor_selection, best_score, remaining_budget,
                   selected_vendors, total_cost, runs, previous_result>>
    /\ UNCHANGED <<discovery_vars, search_vars, planner_vars, chat_vars, service_vars>>

\* the best candidate put in front of the earlier selections
SelectBestInFront ==
    /\ pc = "select"
    /\ IF best_vendor_selection # <<>>
       THEN /\ selected_vendors' = <<best_vendor_selection[1]>> \o selected_vendors
            /\ remaining_budget' = remaining_budget - best_vendor_selection[1].cost
       ELSE UNCHANGED <<selected_vendors, remaining_budget>>
    /\ ci' = ci + 1
    /\ pc' = "category"
    /\ UNCHANGED <<available_vendors, budget, vendors_by_category, vi, si,
                   best_vendor_selection, best_score, total_cost, runs, previous_result>>
    /\ UNCHANGED <<discovery_vars, search_vars, planner_vars, chat_vars, service_vars>>

\* lines 56-58
SelectBest ==
    /\ pc = "select"
    /\ IF best_vendor_selection # <<>>
       THEN /\ selected_vendors' = Append(selected_vendors, best_vendor_selection[1])
            /\ remaining_budget' = remaining_budget - best_vendor_selection[1].cost
       ELSE UNCHANGED <<selected_vendors, remaining_budget>>
    /\ ci' = ci + 1
    /\ pc' = "category"
    /\ UNCHANGED <<available_vendors, budget, vendors_by_category, vi, si,
                   best_vendor_selection, best_score, total_cost, runs, previous_result>>
    /\ UNCHANGED <<discovery_vars, search_vars, planner_vars, chat_vars, service_vars>>

\* plan_event line 57
PlanTotal ==
    /\ pc = "returned"
    /\ total_cost' = IF selected_vendors # <<>> THEN SumCost(selected_vendors) ELSE 0
    /\ pc' = "planned"
    /\ UNCHANGED <<available_vendors, budget, vendors_by_category, ci, vi, si,
                   best_vendor_selection, best_score, remaining_budget,
                   selected_vendors, runs, previous_result>>
    /\ UNCHANGED <<discovery_vars, search_vars, planner_vars, chat_vars, service_vars>>

\* A caller that holds the Optimizer calls optimize_schedule again with the
\* same requirements and the same pool (lines 13-14 run again).
CallAgain ==
    /\ pc = "returned"
    /\ runs >= 1
    /\ runs < MaxRuns
    /\ previous_result' = selected_vendors
    /\ selected_vendors' = <<>>
    /\ remaining_budget' = EntryBudget(budget, remaining_budget, runs)
    /\ runs' = runs + 1
    /\ pc' = "group"
    /\ UNCHANGED <<available_vendors, budget, vendors_by_category, ci, vi, si,
                   best_vendor_selection, best_score, total_cost>>
    /\ UNCHANGED <<discovery_vars, search_vars, planner_vars, chat_vars, service_vars>>

Next ==
    \/ CallOptimizer
    \/ GroupVendors
    \/ VisitCategory
    \/ VisitVendor
    \/ VisitService
    \/ SelectBest
    \/ PlanTotal

Spec == Init /\ [][Next]_vars

\* the pools on which the runs are followed to their end: vendors without a
\* rating or with one
RunPools ==
    {pool \in Pools : \A i \in 1 .. Len(pool) : pool[i].rating \in {NoRating, 4}}

InitRun ==
    /\ PlannerIdle
    /\ ChatIdle
    /\ ServiceIdle
    /\ SearchIdle
    /\ DiscoveryIdle
    /\ available_vendors \in RunPools
    /\ budget \in Budgets
    /\ pc = "plan_event"
    /\ vendors_by_category = [c \in Categories |-> <<>>]
    /\ ci = 0
    /\ vi = 0
    /\ si = 0
    /\ best_vendor_selection = <<>>
    /\ best_score = Frac(-1, 1)
    /\ remaining_budget = 0
    /\ selected_vendors = <<>>
    /\ total_cost = -1
    /\ runs = 0
    /\ previous_result = <<>>

\* The call runs on one thread that nothing holds up: a step that can be taken
\* is taken.
SpecRun == InitRun /\ [][Next]_vars /\ WF_vars(Next)

NextTwice ==
    \/ CallOptimizer
    \/ GroupVendors
    \/ VisitCategory
    \/ VisitVendor
    \/ VisitService
    \/ SelectBest
    \/ CallAgain

SpecTwice == Init /\ [][NextTwice]_vars

\* ------------------------------------------------------ _matches_filters
InitFilter ==
    /\ PlannerIdle
    /\ ChatIdle
    /\ ServiceIdle
    /\ SearchIdle
    /\ OptimizerIdle
    /\ vendor_profile \in FilterVendors
    /\ event_requirements \in FilterRequirements
    /\ search_keywords = <<>>
    /\ phase = "ready"
    /\ filter_result = <<>>
    /\ previous_filter = <<>>
    /\ match_score = <<0, 1>>
    /\ price_score = <<0, 1>>
    /\ keyword_result = EmptyBag

\* a call of _matches_filters(vendor, requirements)
ApplyFilter ==
    /\ phase = "ready"
    /\ filter_result' = <<MatchesFilters(vendor_profile, event_requirements)>>
    /\ phase' = "filtered"
    /\ UNCHANGED <<vendor_profile, event_requirements, search_keywords, previous_filter,
                   match_score, price_score, keyword_result>>
    /\ UNCHANGED <<optimizer_vars, search_vars, planner_vars, chat_vars, service_vars>>

\* The requirements that differ from r only by a strictly lower non-negative
\* budget, or only by a location where r had none.
Stricter(r) ==
    {q \in FilterRequirements :
        \/ q.location = r.location /\ q.budget < r.budget
        \/ q.budget = r.budget /\ ~LocationGiven(r.location) /\ LocationGiven(q.location)}

\* the caller asks again about the same vendor with stricter requirements
Restrict ==
    /\ phase = "filtered"
    /\ \E q \in Stricter(event_requirements) :
          /\ event_requirements' = q
          /\ previous_filter' =
                <<[requirements |-> event_requirements, result |-> filter_result[1]]>>
    /\ filter_result' = <<>>
    /\ phase' = "ready"
    /\ UNCHANGED <<vendor_profile, search_keywords, match_score, price_score,
                   keyword_result>>
    /\ UNCHANGED <<optimizer_vars, search_vars, planner_vars, chat_vars, service_vars>>

NextFilter ==
    \/ ApplyFilter
    \/ Restrict

SpecFilter == InitFilter /\ [][NextFilter]_vars

\* ------------------------------------------------------ _calculate_score
RECURSIVE CountMatches(_, _, _)
\* lines 225-228: the keywords found in the vendor's keywords or in its text
CountMatches(keywords, vendor_keywords, vendor_text) ==
    IF keywords = <<>>
    THEN 0
    ELSE (IF InList(keywords[1], vendor_keywords) \/ InString(keywords[1], vendor_text)
          THEN 1
          ELSE 0)
         + CountMatches(Tail(keywords), vendor_keywords, vendor_text)

\* vendor_keywords = [k.lower() for k in vendor.keywords]
VendorKeywords(v) == [i \in 1 .. Len(v.keywords) |-> Lower(v.keywords[i])]

\* vendor_text = f"{description} {category} {business_name}".lower()
VendorText(v) == Lower(v.description \o <<" ">> \o v.category \o <<" ">> \o v.business_name)

\* max(len(search_keywords), 1)
AtLeastOne(n) == IF n > 1 THEN n ELSE 1

\* keyword_score = min(1.0, matches / max(len(search_keywords), 1)) * 0.4
KeywordScore(v, keywords) ==
    RMul(RMin(One, Frac(CountMatches(keywords, VendorKeywords(v), VendorText(v)),
                        AtLeastOne(Len(keywords)))),
         Frac(KeywordWeight, 10))

\* rating_score = (vendor.rating / 5.0) * 0.3
RatingScore(v) == RMul(Frac(v.rating, 10 * FullRating), Frac(RatingWeight, 10))

\* the lower end of the range in place of its middle
MinPrice(v) == Frac(v.pricing_min, 1)

\* avg_price = (vendor.pricing_min + vendor.pricing_max) / 2
AvgPrice(v) == Frac(v.pricing_min + v.pricing_max, 2)

\* the penalty without max(0, ...)
OverBudgetPenaltyUnclamped(avg_price, b) ==
    RMul(Frac(PriceWeight, 10), RSub(One, RDiv(RSub(avg_price, Frac(b, 1)), Frac(b, 1))))

\* max(0, 0.2 * (1 - (avg_price - budget) / budget))
OverBudgetPenalty(avg_price, b) ==
    RMax(Zero,
         RMul(Frac(PriceWeight, 10), RSub(One, RDiv(RSub(avg_price, Frac(b, 1)), Frac(b, 1)))))

\* lines 236-244
PriceScore(v, r) ==
    IF BudgetGiven(r.budget)
    THEN IF RLe(AvgPrice(v), Frac(r.budget, 1))
         THEN Frac(PriceWeight, 10)
         ELSE OverBudgetPenalty(AvgPrice(v), r.budget)
    ELSE Frac(NoBudgetPriceScore, 10)

\* availability_score = 0.1 if vendor.is_available else 0
AvailabilityScore(v) == IF v.is_available THEN Frac(AvailabilityWeight, 10) ELSE Zero

\* _calculate_score
CalculateScore(v, r, keywords) ==
    RAdd(RAdd(RAdd(KeywordScore(v, keywords), RatingScore(v)), PriceScore(v, r)),
         AvailabilityScore(v))

InitScore ==
    /\ PlannerIdle
    /\ ChatIdle
    /\ ServiceIdle
    /\ SearchIdle
    /\ OptimizerIdle
    /\ vendor_profile \in {v \in ScoreVendors : v.pricing_min <= v.pricing_max}
    /\ event_requirements \in ScoreRequirements
    /\ search_keywords \in KeywordLists
    /\ phase = "ready"
    /\ filter_result = <<>>
    /\ previous_filter = <<>>
    /\ match_score = <<0, 1>>
    /\ price_score = <<0, 1>>
    /\ keyword_result = EmptyBag

\* a call of _calculate_score(vendor, requirements, search_keywords)
ApplyScore ==
    /\ phase = "ready"
    /\ match_score' = CalculateScore(vendor_profile, event_requirements, search_keywords)
    /\ price_score' = PriceScore(vendor_profile, event_requirements)
    /\ phase' = "scored"
    /\ UNCHANGED <<vendor_profile, event_requirements, search_keywords, filter_result,
                   previous_filter, keyword_result>>
    /\ UNCHANGED <<optimizer_vars, search_vars, planner_vars, chat_vars, service_vars>>

NextScore == ApplyScore

SpecScore == InitScore /\ [][NextScore]_vars

\* ------------------------------------------------------ _extract_keywords
Wedding == <<"w", "e", "d", "d", "i", "n", "g">>

Birthday == <<"b", "i", "r", "t", "h", "d", "a", "y">>

Corporate == <<"c", "o", "r", "p", "o", "r", "a", "t", "e">>

\* line 181
WeddingKeywords ==
    <<<<"m", "e", "h", "n", "d", "i">>,
      <<"b", "a", "r", "a", "a", "t">>,
      <<"w", "a", "l", "i", "m", "a">>,
      <<"v", "e", "n", "u", "e">>,
      <<"c", "a", "t", "e", "r", "i", "n", "g">>,
      <<"p", "h", "o", "t", "o", "g", "r", "a", "p", "h", "y">>>>

\* line 183
BirthdayKeywords ==
    <<<<"p", "a", "r", "t", "y">>,
      <<"c", "a", "k", "e">>,
      <<"d", "e", "c", "o", "r", "a", "t", "i", "o", "n">>,
      <<"e", "n", "t", "e", "r", "t", "a", "i", "n", "m", "e", "n", "t">>>>

\* line 185
CorporateKeywords ==
    <<<<"c", "o", "n", "f", "e", "r", "e", "n", "c", "e">>,
      <<"m", "e", "e", "t", "i", "n", "g">>,
      <<"v", "e", "n", "u", "e">>,
      <<"c", "a", "t", "e", "r", "i", "n", "g">>>>

\* the event types and preferences _extract_keywords is tried on
EventTypes ==
    {<<>>,
     <<"g", "a", "l", "a">>,
     <<"W", "e", "d", "d", "i", "n", "g">>,
     <<"b", "i", "r", "t", "h", "d", "a", "y">>,
     <<"C", "o", "r", "p", "o", "r", "a", "t", "e">>,
     <<"B", "i", "r", "t", "h", "d", "a", "y", " ", "W", "e", "d", "d", "i", "n", "g">>,
     <<"c", "o", "r", "p", "o", "r", "a", "t", "e", " ", "b", "i", "r", "t", "h", "d", "a", "y">>}

PreferenceStrings == {<<"V", "e", "n", "u", "e">>, <<"w", "e", "d", "d", "i", "n", "g">>, <<"D", "J">>}

PreferenceLists == UNION {[1 .. n -> PreferenceStrings] : n \in 0 .. MaxPreferences}

KeywordRequirements ==
    {[PlainRequirements EXCEPT !.event_type = e, !.preferences = p] :
        e \in EventTypes, p \in PreferenceLists}

\* lines 180-185: if ... elif ... elif ..., on the lower-cased event type
CategoryMappings(event_type) ==
    IF InString(Wedding, event_type)
    THEN WeddingKeywords
    ELSE IF InString(Birthday, event_type)
    THEN BirthdayKeywords
    ELSE IF InString(Corporate, event_type)
    THEN CorporateKeywords
    ELSE <<>>

\* lines 173-185: the list `keywords` before it is returned
KeywordsBuilt(r) ==
    <<Lower(r.event_type)>>
        \o [i \in 1 .. Len(r.preferences) |-> Lower(r.preferences[i])]
        \o CategoryMappings(Lower(r.event_type))

RECURSIVE BagOfList(_)
\* how many times each string occurs in a list
BagOfList(list) ==
    IF list = <<>> THEN EmptyBag ELSE SetToBag({list[1]}) (+) BagOfList(Tail(list))

\* line 187, list(set(keywords)): each string of the list once.  The order of
\* the returned list is the iteration order of a set of strings, which differs
\* from process to process; what is kept here is which strings the list holds
\* and how many times, the same for every order.
Deduplicated(list) == SetToBag({list[i] : i \in 1 .. Len(list)})

\* _extract_keywords
ExtractKeywords(r) == Deduplicated(KeywordsBuilt(r))

InitKeywords ==
    /\ PlannerIdle
    /\ ChatIdle
    /\ ServiceIdle
    /\ SearchIdle
    /\ OptimizerIdle
    /\ vendor_profile = PlainVendor
    /\ event_requirements \in KeywordRequirements
    /\ search_keywords = <<>>
    /\ phase = "ready"
    /\ filter_result = <<>>
    /\ previous_filter = <<>>
    /\ match_score = <<0, 1>>
    /\ price_score = <<0, 1>>
    /\ keyword_result = EmptyBag

\* a call of _extract_keywords(requirements)
ApplyExtract ==
    /\ phase = "ready"
    /\ keyword_result' = ExtractKeywords(event_requirements)
    /\ phase' = "extracted"
    /\ UNCHANGED <<vendor_profile, event_requirements, search_keywords, filter_result,
                   previous_filter, match_score, price_score>>
    /\ UNCHANGED <<optimizer_vars, search_vars, planner_vars, chat_vars, service_vars>>

NextKeywords == ApplyExtract

SpecKeywords == InitKeywords /\ [][NextKeywords]_vars

\* ------------------------------------------------------ search_vendors
\* the list `samples` of VendorRepository._get_sample_vendors
samples ==
    <<
    [id |-> "catering_001", status |-> "ACTIVE", pricing_min |-> 100, pricing_max |-> 1000,
     rating |-> 45,
     name |-> <<"L", "a", "h", "o", "r", "e", " ", "C", "a", "t", "e", "r", "i", "n", "g",
              " ", "E", "x", "c", "e", "l", "l", "e", "n", "c", "e">>,
     category |-> <<"c", "a", "t", "e", "r", "i", "n", "g">>,
     description |-> <<"P", "r", "e", "m", "i", "u", "m", " ", "P", "a", "k", "i", "s", "t",
                     "a", "n", "i", " ", "c", "u", "i", "s", "i", "n", "e", " ", "f", "o",
                     "r", " ", "w", "e", "d", "d", "i", "n", "g", "s", " ", "a", "n", "d",
                     " ", "e", "v", "e", "n", "t", "s">>,
     service_areas |-> <<<<"L", "a", "h", "o", "r", "e">>, <<"I", "s", "l", "a", "m", "a",
                       "b", "a", "d">>>>,
     keywords |-> <<<<"w", "e", "d", "d", "i", "n", "g">>, <<"m", "e", "h", "n", "d", "i">>,
                  <<"w", "a", "l", "i", "m", "a">>, <<"c", "a", "t", "e", "r", "i", "n",
                  "g">>, <<"f", "o", "o", "d">>, <<"t", "r", "a", "d", "i", "t", "i", "o",
                  "n", "a", "l">>>>],
    [id |-> "venue_001", status |-> "ACTIVE", pricing_min |-> 400, pricing_max |-> 1600,
     rating |-> 48,
     name |-> <<"R", "o", "y", "a", "l", " ", "M", "a", "r", "q", "u", "e", "e", " ", "L",
              "a", "h", "o", "r", "e">>,
     category |-> <<"v", "e", "n", "u", "e">>,
     description |-> <<"L", "u", "x", "u", "r", "y", " ", "w", "e", "d", "d", "i", "n", "g",
                     " ", "v", "e", "n", "u", "e", " ", "w", "i", "t", "h", " ", "l", "a",
                     "w", "n", "s", " ", "a", "n", "d", " ", "m", "a", "r", "q", "u", "e",
                     "e", "s">>,
     service_areas |-> <<<<"L", "a", "h", "o", "r", "e">>>>,
     keywords |-> <<<<"w", "e", "d", "d", "i", "n", "g">>, <<"v", "e", "n", "u", "e">>,
                  <<"m", "a", "r", "q", "u", "e", "e">>, <<"h", "a", "l", "l">>, <<"l", "a",
                  "w", "n">>, <<"m", "e", "h", "n", "d", "i">>>>],
    [id |-> "photo_001", status |-> "ACTIVE", pricing_min |-> 200, pricing_max |-> 800,
     rating |-> 47,
     name |-> <<"M", "o", "m", "e", "n", "t", "s", " ", "P", "h", "o", "t", "o", "g", "r",
              "a", "p", "h", "y">>,
     category |-> <<"p", "h", "o", "t", "o", "g", "r", "a", "p", "h", "y">>,
     description |-> <<"W", "e", "d", "d", "i", "n", "g", " ", "p", "h", "o", "t", "o", "g",
                     "r", "a", "p", "h", "y", " ", "a", "n", "d", " ", "v", "i", "d", "e",
                     "o", "g", "r", "a", "p", "h", "y">>,
     service_areas |-> <<<<"L", "a", "h", "o", "r", "e">>, <<"I", "s", "l", "a", "m", "a",
                       "b", "a", "d">>, <<"K", "a", "r", "a", "c", "h", "i">>>>,
     keywords |-> <<<<"p", "h", "o", "t", "o", "g", "r", "a", "p", "h", "y">>, <<"v", "i",
                  "d", "e", "o">>, <<"d", "r", "o", "n", "e">>, <<"w", "e", "d", "d", "i",
                  "n", "g">>, <<"p", "h", "o", "t", "o">>>>],
    [id |-> "decor_001", status |-> "ACTIVE", pricing_min |-> 160, pricing_max |-> 700,
     rating |-> 46,
     name |-> <<"F", "l", "o", "r", "a", "l", " ", "D", "r", "e", "a", "m", "s", " ", "D",
              "e", "c", "o", "r", "a", "t", "i", "o", "n">>,
     category |-> <<"d", "e", "c", "o", "r", "a", "t", "i", "o", "n">>,
     description |-> <<"E", "v", "e", "n", "t", " ", "d", "e", "c", "o", "r", "a", "t", "i",
                     "o", "n", " ", "a", "n", "d", " ", "f", "l", "o", "r", "a", "l", " ",
                     "a", "r", "r", "a", "n", "g", "e", "m", "e", "n", "t", "s">>,
     service_areas |-> <<<<"L", "a", "h", "o", "r", "e">>, <<"I", "s", "l", "a", "m", "a",
                       "b", "a", "d">>>>,
     keywords |-> <<<<"d", "e", "c", "o", "r", "a", "t", "i", "o", "n">>, <<"f", "l", "o",
                  "w", "e", "r", "s">>, <<"d", "e", "c", "o", "r">>, <<"w", "e", "d", "d",
                  "i", "n", "g">>, <<"t", "h", "e", "m", "e">>>>],
    [id |-> "music_001", status |-> "ACTIVE", pricing_min |-> 80, pricing_max |-> 300,
     rating |-> 44,
     name |-> <<"B", "e", "a", "t", " ", "M", "a", "s", "t", "e", "r", "s", " ", "D", "J">>,
     category |-> <<"m", "u", "s", "i", "c">>,
     description |-> <<"D", "J", " ", "s", "e", "r", "v", "i", "c", "e", "s", " ", "a", "n",
                     "d", " ", "l", "i", "v", "e", " ", "b", "a", "n", "d", " ", "e", "n",
                     "t", "e", "r", "t", "a", "i", "n", "m", "e", "n", "t">>,
     service_areas |-> <<<<"L", "a", "h", "o", "r", "e">>, <<"K", "a", "r", "a", "c", "h",
                       "i">>, <<"I", "s", "l", "a", "m", "a", "b", "a", "d">>>>,
     keywords |-> <<<<"d", "j">>, <<"m", "u", "s", "i", "c">>, <<"b", "a", "n", "d">>,
                  <<"e", "n", "t", "e", "r", "t", "a", "i", "n", "m", "e", "n", "t">>,
                  <<"s", "o", "u", "n", "d">>>>],
    [id |-> "catering_002", status |-> "ACTIVE", pricing_min |-> 50, pricing_max |-> 400,
     rating |-> 43,
     name |-> <<"K", "a", "r", "a", "c", "h", "i", " ", "B", "B", "Q", " ", "H", "o", "u",
              "s", "e">>,
     category |-> <<"c", "a", "t", "e", "r", "i", "n", "g">>,
     description |-> <<"B", "B", "Q", " ", "a", "n", "d", " ", "s", "t", "r", "e", "e", "t",
                     " ", "f", "o", "o", "d", " ", "c", "a", "t", "e", "r", "i", "n", "g",
                     " ", "f", "o", "r", " ", "c", "a", "s", "u", "a", "l", " ", "e", "v",
                     "e", "n", "t", "s">>,
     service_areas |-> <<<<"K", "a", "r", "a", "c", "h", "i">>>>,
     keywords |-> <<<<"b", "b", "q">>, <<"c", "a", "t", "e", "r", "i", "n", "g">>, <<"p",
                  "a", "r", "t", "y">>, <<"b", "i", "r", "t", "h", "d", "a", "y">>, <<"c",
                  "a", "s", "u", "a", "l">>>>]
    >>

Lahore == <<"L", "a", "h", "o", "r", "e">>

Karachi == <<"K", "a", "r", "a", "c", "h", "i">>

\* the requirements search_vendors is tried on: budgets in units of 500 PKR; the
\* location None, a city as the vendors spell it, a city in lower case, and the
\* beginning of a city's name
SearchBudgets == {0, 70, 700}

SearchLocations == {<<>>, <<Karachi>>, <<Lower(Lahore)>>, <<<<"L", "a", "h">>>>}

SearchEventTypes == {<<"W", "e", "d", "d", "i", "n", "g">>, <<"g", "a", "l", "a">>}

SearchRequirements ==
    {[PlainRequirements EXCEPT !.budget = b, !.location = l, !.event_type = e] :
        b \in SearchBudgets, l \in SearchLocations, e \in SearchEventTypes}

\* the values of top_k search_vendors is called with (plan_event passes 5)
TopKs == {1, 5}

\* the primary keys of the rows of the vendors table
DbIds == <<"db_1", "db_2", "db_3">>

\* A row of the vendors table.  A column that is NULL is <<>>, one that holds x
\* is <<x>>.
DbRowChoices ==
    [name : {<<"H", "a", "l", "l">>}, category : {<<"v", "e", "n", "u", "e">>},
     description : {<<>>},
     service_areas : {<<Lahore>>, <<Karachi>>},
     pricing_min : {<<80>>, <<600>>}, pricing_max : {<<>>, <<200>>},
     rating : {<<45>>}, keywords : {<<<<"w", "e", "d", "d", "i", "n", "g">>>>},
     status : {"ACTIVE", "INACTIVE"}]

\* the contents of the vendors table: the i-th row has the i-th primary key
DbTables ==
    UNION {[1 .. n -> DbRowChoices] : n \in 0 .. MaxRows}

\* row.get(column) or 0
OrZero(column) == IF column = <<>> THEN 0 ELSE column[1]

\* database lines 169-191, for the row of primary key id
RowToVendor(row, id) ==
    [id |-> id, name |-> row.name, category |-> row.category,
     description |-> row.description, service_areas |-> row.service_areas,
     pricing_min |-> OrZero(row.pricing_min), pricing_max |-> OrZero(row.pricing_max),
     rating |-> OrZero(row.rating), keywords |-> row.keywords, status |-> row.status]

\* database lines 114-131, the WHERE clause: a comparison with NULL is not true;
\* ILIKE '%x%' is containment ignoring case (no % or _ inside x here); the text of
\* service_areas contains the location when one of the areas does
RowMatches(row, r) ==
    /\ row.status = "ACTIVE"
    /\ BudgetGiven(r.budget) => (row.pricing_min # <<>> /\ row.pricing_min[1] <= r.budget)
    /\ r.event_type # <<>> =>
          \/ InString(Lower(r.event_type), Lower(row.category))
          \/ InList(Lower(r.event_type), row.keywords)
    /\ LocationGiven(r.location) =>
          \E i \in 1 .. Len(row.service_areas) :
              InString(Lower(r.location[1]), Lower(row.service_areas[i]))

\* ORDER BY rating DESC sorts NULL first
RatingOrder(row) == IF row.rating = <<>> THEN 10 * FullRating + 1 ELSE row.rating[1]

\* list[:n]
FirstN(list, n) == SubSeq(list, 1, IF n < Len(list) THEN n ELSE Len(list))

\* database lines 134-140: the matching rows by descending rating, at most
\* `limit` of them, as records.  Rows of equal rating come in any order.
QueryResults(table, r, limit) ==
    LET matching == {i \in 1 .. Len(table) : RowMatches(table[i], r)}
        n == Cardinality(matching)
        orders == {o \in [1 .. n -> matching] :
                      /\ \A i, j \in 1 .. n : i # j => o[i] # o[j]
                      /\ \A i, j \in 1 .. n :
                            i < j => RatingOrder(table[o[i]]) >= RatingOrder(table[o[j]])}
    IN  {FirstN([i \in 1 .. n |-> RowToVendor(table[o[i]], DbIds[o[i]])], limit) :
            o \in orders}

\* database lines 251-264: what _get_sample_vendors keeps of its samples
SampleMatches(v, r) ==
    /\ ~(BudgetGiven(r.budget) /\ v.pricing_min > r.budget)
    /\ LocationGiven(r.location) =>
          \E i \in 1 .. Len(v.service_areas) :
              InString(Lower(r.location[1]), Lower(v.service_areas[i]))
    /\ r.event_type # <<>> =>
          \/ InString(Lower(r.event_type), Lower(v.category))
          \/ InList(Lower(r.event_type), [i \in 1 .. Len(v.keywords) |-> Lower(v.keywords[i])])

\* database lines 193-268
GetSampleVendors(r, limit) ==
    FirstN(SelectSeq(samples, LAMBDA v : SampleMatches(v, r)), limit)

\* How the repository stands when search_vendors is called: "off" when the agent
\* does not use it (use_database false), "connected", "no_connection"
\* (get_connection returned None), "query_fails" (an exception inside the try of
\* lines 105-144), "raises" (an exception leaves VendorRepository.search_vendors).
DbModes == {"off", "connected", "no_connection", "query_fails", "raises"}

\* database lines 99-144: what the call of line 112 gives, [raised, records]
RepositoryAnswers(mode, table, r, limit) ==
    IF mode = "raises"
    THEN {[raised |-> TRUE, records |-> <<>>]}
    ELSE IF mode = "connected"
    THEN {[raised |-> FALSE, records |-> rows] : rows \in QueryResults(table, r, limit)}
    ELSE {[raised |-> FALSE, records |-> GetSampleVendors(r, limit)]}

\* lines 155-169
RecordToProfile(record) ==
    [vendor_id |-> record.id, business_name |-> record.name, category |-> record.category,
     description |-> record.description, service_areas |-> record.service_areas,
     pricing_min |-> record.pricing_min, pricing_max |-> record.pricing_max,
     rating |-> record.rating, keywords |-> record.keywords,
     is_available |-> (record.status = "ACTIVE")]

\* the samples only after an exception, not after an empty answer
VendorsToScoreUnlessEmpty(answer, sample_list) ==
    IF answer.raised
    THEN sample_list
    ELSE [i \in 1 .. Len(answer.records) |-> RecordToProfile(answer.records[i])]

\* lines 111-123: the profiles of the records, the samples when there are none
\* or when the call raised
VendorsToScore(answer, sample_list) ==
    IF answer.raised
    THEN sample_list
    ELSE IF answer.records = <<>>
    THEN sample_list
    ELSE [i \in 1 .. Len(answer.records) |-> RecordToProfile(answer.records[i])]

RECURSIVE ListOfSet(_)
\* a list holding each element of a set once
ListOfSet(set) ==
    IF set = {}
    THEN <<>>
    ELSE LET x == CHOOSE x \in set : TRUE IN <<x>> \o ListOfSet(set \ {x})

\* line 128: the keyword list handed to _calculate_score, which counts the
\* keywords that match and so gives the same score for every order of the list
SearchKeywords(r) == ListOfSet(BagToSet(ExtractKeywords(r)))

\* every vendor scored, the filter skipped
ScoredWithoutFilter(list, r, keywords) ==
    [i \in 1 .. Len(list) |->
        [vendor |-> list[i], score |-> CalculateScore(list[i], r, keywords)]]

\* lines 130-136: the vendors that pass the filter, each with its score
ScoredVendors(list, r, keywords) ==
    LET passing == SelectSeq(list, LAMBDA v : MatchesFilters(v, r))
    IN  [i \in 1 .. Len(passing) |->
            [vendor |-> passing[i], score |-> CalculateScore(passing[i], r, keywords)]]

\* a sort that puts an entry in front of the entries of equal score
InsertBeforeEqual(entry, sorted) ==
    LET k == Cardinality({i \in 1 .. Len(sorted) : RGt(sorted[i].score, entry.score)})
    IN  SubSeq(sorted, 1, k) \o <<entry>> \o SubSeq(sorted, k + 1, Len(sorted))

\* where list.sort(reverse=True) puts an entry among entries already sorted:
\* behind every entry whose score is not lower
InsertByScore(entry, sorted) ==
    LET k == Cardinality({i \in 1 .. Len(sorted) : RLe(entry.score, sorted[i].score)})
    IN  SubSeq(sorted, 1, k) \o <<entry>> \o SubSeq(sorted, k + 1, Len(sorted))

RECURSIVE SortedByScore(_)
\* line 139: by descending score; the sort is stable, entries of equal score
\* keep their order
SortedByScore(list) ==
    IF list = <<>>
    THEN <<>>
    ELSE InsertByScore(list[Len(list)], SortedByScore(SubSeq(list, 1, Len(list) - 1)))

Default == <<"_", "d", "e", "f", "a", "u", "l", "t">>

\* lines 142-150, reason left out
SelectionOf(entry) ==
    [vendor_id |-> entry.vendor.vendor_id,
     service_id |-> entry.vendor.category \o Default,
     cost |-> AvgPrice(entry.vendor)]

\* lines 141-150
Selections(sorted, k) ==
    [i \in 1 .. Len(FirstN(sorted, k)) |-> SelectionOf(sorted[i])]

\* search_vendors(event_requirements, top_k) is called on an agent whose
\* repository is in some state
InitSearch ==
    /\ PlannerIdle
    /\ ChatIdle
    /\ ServiceIdle
    /\ OptimizerIdle
    /\ vendor_profile = PlainVendor
    /\ event_requirements \in SearchRequirements
    /\ search_keywords = <<>>
    /\ phase = "idle"
    /\ filter_result = <<>>
    /\ previous_filter = <<>>
    /\ match_score = <<0, 1>>
    /\ price_score = <<0, 1>>
    /\ keyword_result = EmptyBag
    /\ db_mode \in DbModes
    /\ db_table \in (IF db_mode = "connected" THEN DbTables ELSE {<<>>})
    /\ top_k \in TopKs
    /\ sample_vendors = SAMPLE_VENDORS
    /\ db_answer = <<>>
    /\ vendors = <<>>
    /\ scored_vendors = <<>>
    /\ results = <<>>
    /\ search_pc = "search"

\* lines 109-125
FetchVendors ==
    /\ search_pc = "search"
    /\ IF db_mode = "off"
       THEN /\ vendors' = sample_vendors
            /\ db_answer' = <<>>
       ELSE \E answer \in RepositoryAnswers(db_mode, db_table, event_requirements, top_k * 2) :
                /\ db_answer' = <<answer>>
                /\ vendors' = VendorsToScore(answer, sample_vendors)
    /\ search_pc' = "fetched"
    /\ UNCHANGED <<db_mode, db_table, top_k, sample_vendors, scored_vendors, results>>
    /\ UNCHANGED <<discovery_vars, optimizer_vars, planner_vars, chat_vars, service_vars>>

\* lines 128-136
ScoreAll ==
    /\ search_pc = "fetched"
    /\ search_keywords' = SearchKeywords(event_requirements)
    /\ scored_vendors' = ScoredVendors(vendors, event_requirements, search_keywords')
    /\ search_pc' = "scored"
    /\ UNCHANGED <<db_mode, db_table, top_k, sample_vendors, db_answer, vendors, results>>
    /\ UNCHANGED <<vendor_profile, event_requirements, phase, filter_result,
                   previous_filter, match_score, price_score, keyword_result>>
    /\ UNCHANGED <<optimizer_vars, planner_vars, chat_vars, service_vars>>

\* a search that filters and sorts the list it was given, in place: the module's
\* SAMPLE_VENDORS when that is the list
RankVendorsInPlace ==
    /\ search_pc = "scored"
    /\ scored_vendors' = SortedByScore(scored_vendors)
    /\ results' = Selections(scored_vendors', top_k)
    /\ vendors' = [i \in 1 .. Len(scored_vendors') |-> scored_vendors'[i].vendor]
    /\ sample_vendors' = (IF db_answer = <<>> \/ VendorsToScore(db_answer[1], <<>>) = <<>>
                          THEN vendors'
                          ELSE sample_vendors)
    /\ search_pc' = "returned"
    /\ UNCHANGED <<db_mode, db_table, top_k, db_answer>>
    /\ UNCHANGED <<discovery_vars, optimizer_vars, planner_vars, chat_vars, service_vars>>

\* lines 139-153
RankVendors ==
    /\ search_pc = "scored"
    /\ scored_vendors' = SortedByScore(scored_vendors)
    /\ results' = Selections(scored_vendors', top_k)
    /\ search_pc' = "returned"
    /\ UNCHANGED <<db_mode, db_table, top_k, sample_vendors, db_answer, vendors>>
    /\ UNCHANGED <<discovery_vars, optimizer_vars, planner_vars, chat_vars, service_vars>>

NextSearch ==
    \/ FetchVendors
    \/ ScoreAll
    \/ RankVendors

SpecSearch == InitSearch /\ [][NextSearch]_vars

\* ------------------------------------------------------------ plan_event
\* the vendors the portal may list, with what the planner reads of them
ApiVendorChoices ==
    {[name |-> <<"H", "a", "l", "l", " ", "o", "f", " ", "T", "a", "s", "t", "e">>,
      category |-> "catering", rating |-> 4, services |-> <<2, 67>>],
     [name |-> <<"G", "a", "l", "a", " ", "H", "a", "l", "l">>,
      category |-> "venue", rating |-> 2, services |-> <<0>>],
     [name |-> <<"W", "e", "d", "d", "i", "n", "g", " ", "L", "a", "w", "n">>,
      category |-> "venue", rating |-> NoRating, services |-> <<700>>]}

ApiCatalogues == UNION {[1 .. n -> ApiVendorChoices] : n \in 0 .. MaxApiVendors}

\* the event types plan_event is tried on
PlanEventTypes == SearchEventTypes \cup {<<"H", "a", "l", "l">>}

PlanRequirements ==
    {[PlainRequirements EXCEPT !.budget = b, !.location = l, !.event_type = e] :
        b \in SearchBudgets, l \in SearchLocations, e \in PlanEventTypes}

\* the vendors tables plan_event is tried on
PlanTables == {t \in DbTables : Len(t) <= 1}

\* api_vendor_handler line 23 and manual_vendor_handler line 31:
\* query and query.lower() not in name.lower()
NameMismatch(query, name) == query # <<>> /\ ~InString(Lower(query), Lower(name))

\* ApiVendorHandler.search_vendors(query) and ManualVendorHandler.search_vendors(query):
\* the vendors whose name holds the query
SearchByName(list, query) == SelectSeq(list, LAMBDA v : ~NameMismatch(query, v.name))

\* a vendor dict as the optimizer reads it
DictOf(v) ==
    [kind |-> "dict", category |-> v.category, rating |-> v.rating, services |-> v.services]

\* a list of n copies of x
Repeat(x, n) == [i \in 1 .. n |-> x]

\* plan_event as EventPlannerAgent of packages runs it, or the legacy one
Planners == {"packages", "legacy"}

InitPlan ==
    /\ vendor_profile = PlainVendor
    /\ search_keywords = <<>>
    /\ phase = "idle"
    /\ filter_result = <<>>
    /\ previous_filter = <<>>
    /\ match_score = <<0, 1>>
    /\ price_score = <<0, 1>>
    /\ keyword_result = EmptyBag
    /\ planner \in Planners
    /\ discovery_agent \in (IF planner = "packages" THEN BOOLEAN ELSE {FALSE})
    /\ api_catalogue \in ApiCatalogues
    /\ manual_vendors = MANUAL_VENDORS
    /\ vendor_origin = <<>>
    /\ ChatIdle
    /\ ServiceIdle
    /\ db_mode \in (IF discovery_agent THEN DbModes ELSE {"off"})
    /\ db_table \in (IF db_mode = "connected" THEN PlanTables ELSE {<<>>})
    /\ top_k = 5
    /\ sample_vendors = SAMPLE_VENDORS
    /\ db_answer = <<>>
    /\ vendors = <<>>
    /\ scored_vendors = <<>>
    /\ results = <<>>
    /\ search_pc = (IF discovery_agent THEN "search" ELSE "idle")
    /\ \E r \in PlanRequirements :
          /\ event_requirements = r
          /\ budget = r.budget
    /\ available_vendors = <<>>
    /\ pc = (IF planner = "packages" THEN "discover" ELSE "legacy")
    /\ vendors_by_category = [c \in Categories |-> <<>>]
    /\ ci = 0
    /\ vi = 0
    /\ si = 0
    /\ best_vendor_selection = <<>>
    /\ best_score = Frac(-1, 1)
    /\ remaining_budget = 0
    /\ selected_vendors = <<>>
    /\ total_cost = -1
    /\ runs = 0
    /\ previous_result = <<>>

\* plan_event lines 37-43: the results of search_vendors(event_details, top_k=5),
\* VendorSelection objects, open the list
ExtendWithResults ==
    /\ pc = "discover"
    /\ discovery_agent => search_pc = "returned"
    /\ available_vendors' = Repeat(VendorSelectionObject, Len(results))
    /\ vendor_origin' = Repeat("discovery", Len(results))
    /\ pc' = "supplement"
    /\ UNCHANGED <<budget, vendors_by_category, ci, vi, si, best_vendor_selection,
                   best_score, remaining_budget, selected_vendors, total_cost, runs,
                   previous_result>>
    /\ UNCHANGED <<planner, discovery_agent, api_catalogue, manual_vendors, chat_vars, service_vars>>
    /\ UNCHANGED <<discovery_vars, search_vars>>

\* the dicts the two handlers give for the event type, API first
HandlerVendors ==
    SearchByName(api_catalogue, event_requirements.event_type)
        \o SearchByName(manual_vendors, event_requirements.event_type)

\* where each of them comes from
HandlerOrigins ==
    Repeat("api", Len(SearchByName(api_catalogue, event_requirements.event_type)))
        \o Repeat("manual", Len(SearchByName(manual_vendors, event_requirements.event_type)))

\* plan_event lines 46-51
Supplement ==
    /\ pc = "supplement"
    /\ IF Len(available_vendors) < 3
       THEN /\ available_vendors' =
                 available_vendors \o [i \in 1 .. Len(HandlerVendors) |-> DictOf(HandlerVendors[i])]
            /\ vendor_origin' = vendor_origin \o HandlerOrigins
       ELSE UNCHANGED <<available_vendors, vendor_origin>>
    /\ pc' = "plan_event"
    /\ UNCHANGED <<budget, vendors_by_category, ci, vi, si, best_vendor_selection,
                   best_score, remaining_budget, selected_vendors, total_cost, runs,
                   previous_result>>
    /\ UNCHANGED <<planner, discovery_agent, api_catalogue, manual_vendors, chat_vars, service_vars>>
    /\ UNCHANGED <<discovery_vars, search_vars>>

\* legacy plan_event lines 21-23
LegacyCollect ==
    /\ pc = "legacy"
    /\ available_vendors' = [i \in 1 .. Len(HandlerVendors) |-> DictOf(HandlerVendors[i])]
    /\ vendor_origin' = HandlerOrigins
    /\ pc' = "legacy_optimize"
    /\ UNCHANGED <<budget, vendors_by_category, ci, vi, si, best_vendor_selection,
                   best_score, remaining_budget, selected_vendors, total_cost, runs,
                   previous_result>>
    /\ UNCHANGED <<planner, discovery_agent, api_catalogue, manual_vendors, chat_vars, service_vars>>
    /\ UNCHANGED <<discovery_vars, search_vars>>

\* legacy optimizer lines 40-51: 0 when the placeholder price is out of reach or
\* there is no candidate, else the first candidate of the highest rating (the
\* price is the same for all, and a later one wins only by score > best_score)
LegacyBest(pool, candidates, remaining) ==
    IF LegacyPrice > remaining \/ candidates = <<>>
    THEN 0
    ELSE LET first == CHOOSE k \in 1 .. Len(candidates) :
                          /\ \A j \in 1 .. Len(candidates) :
                                Rating(pool[candidates[j]]) <= Rating(pool[candidates[k]])
                          /\ \A j \in 1 .. k - 1 :
                                Rating(pool[candidates[j]]) < Rating(pool[candidates[k]])
        IN  candidates[first]

\* legacy optimizer lines 54-58: VendorSelection has vendor_id, service_id and
\* reason, and no cost
LegacySelection(vendor_id, category) ==
    [vendor_id |-> vendor_id, service_id |-> "default_service",
     reason |-> <<"Best value for", category>>]

RECURSIVE LegacySelections(_, _, _)
\* legacy optimizer lines 30-61, from the category of index k on
LegacySelections(pool, k, remaining) ==
    IF k > Len(required_categories)
    THEN <<>>
    ELSE LET best == LegacyBest(pool, GroupOf(pool, required_categories[k]), remaining)
         IN  IF best = 0
             THEN LegacySelections(pool, k + 1, remaining)
             ELSE <<LegacySelection(best, required_categories[k])>>
                      \o LegacySelections(pool, k + 1, remaining - LegacyPrice)

\* legacy plan_event line 26, legacy optimize_schedule lines 13-61
LegacyOptimize ==
    /\ pc = "legacy_optimize"
    /\ selected_vendors' = LegacySelections(available_vendors, 1, budget)
    /\ pc' = "returned"
    /\ UNCHANGED <<available_vendors, budget, vendors_by_category, ci, vi, si,
                   best_vendor_selection, best_score, remaining_budget, total_cost,
                   runs, previous_result>>
    /\ UNCHANGED <<discovery_vars, search_vars, planner_vars, chat_vars, service_vars>>

\* the placeholder price for each selection
PlaceholderTotal(selected) == LegacyPrice * Len(selected)

\* legacy plan_event line 29: sum([1000.0 for _ in selected_vendors])
LegacyTotal(selected) == LegacyPrice * Len(selected)

\* packages plan_event line 57
PackagesTotal(selected) == IF selected # <<>> THEN SumCost(selected) ELSE 0

\* plan_event line 57 (legacy line 29) and the EventPlan that is returned
PlanCreated ==
    /\ pc = "returned"
    /\ total_cost' = (IF planner = "legacy"
                      THEN LegacyTotal(selected_vendors)
                      ELSE PackagesTotal(selected_vendors))
    /\ pc' = "planned"
    /\ UNCHANGED <<available_vendors, budget, vendors_by_category, ci, vi, si,
                   best_vendor_selection, best_score, remaining_budget,
                   selected_vendors, runs, previous_result>>
    /\ UNCHANGED <<discovery_vars, search_vars, planner_vars, chat_vars, service_vars>>

NextPlan ==
    \/ FetchVendors
    \/ ScoreAll
    \/ RankVendors
    \/ ExtendWithResults
    \/ Supplement
    \/ CallOptimizer
    \/ GroupVendors
    \/ VisitCategory
    \/ VisitVendor
    \/ VisitService
    \/ SelectBest
    \/ LegacyCollect
    \/ LegacyOptimize
    \/ PlanCreated

SpecPlan == InitPlan /\ [][NextPlan]_vars

\* ------------------------------------------------------------ the chat flow
\* the two app.py
Apps == {"legacy", "packages"}

\* what the user may do with an AskActionMessage: one of its actions, or
\* nothing until it times out ("none")
LegacyAnswers == {"approve", "reject", "none"}

PackagesAnswers == {"approve", "modify", "reject", "none"}

InitChat ==
    /\ OptimizerIdle
    /\ DiscoveryIdle
    /\ SearchIdle
    /\ PlannerIdle
    /\ ServiceIdle
    /\ app \in Apps
    /\ chat_pc = "waiting"
    /\ handled = 0
    /\ log = <<>>

\* on_message is called with a message of the user
ReceiveMessage ==
    /\ chat_pc = "waiting"
    /\ handled < MaxMessages
    /\ handled' = handled + 1
    /\ log' = <<>>
    /\ chat_pc' = "processing"
    /\ UNCHANGED app
    /\ UNCHANGED <<optimizer_vars, discovery_vars, search_vars, planner_vars, service_vars>>

\* legacy app.py lines 17-33 and 51-52: process_request gives a plan, which is
\* presented, or something raises and the error is reported
LegacyProcess ==
    /\ app = "legacy"
    /\ chat_pc = "processing"
    /\ \E raised \in BOOLEAN :
          IF raised
          THEN /\ log' = Append(log, "error")
               /\ chat_pc' = "waiting"
          ELSE /\ log' = Append(log, "present")
               /\ chat_pc' = "ask"
    /\ UNCHANGED <<app, handled>>
    /\ UNCHANGED <<optimizer_vars, discovery_vars, search_vars, planner_vars, service_vars>>

\* legacy app.py lines 36-42: the approval prompt and what the user does with it
LegacyAsk ==
    /\ app = "legacy"
    /\ chat_pc = "ask"
    /\ \E answer \in LegacyAnswers : log' = log \o <<"ask", answer>>
    /\ chat_pc' = "answered"
    /\ UNCHANGED <<app, handled>>
    /\ UNCHANGED <<optimizer_vars, discovery_vars, search_vars, planner_vars, service_vars>>

\* legacy app.py lines 44-49: confirm_booking on "approve", else the rejection
LegacyAnswered ==
    /\ app = "legacy"
    /\ chat_pc = "answered"
    /\ log' = Append(log, IF log[Len(log)] = "approve" THEN "book" ELSE "rejected")
    /\ chat_pc' = "waiting"
    /\ UNCHANGED <<app, handled>>
    /\ UNCHANGED <<optimizer_vars, discovery_vars, search_vars, planner_vars, service_vars>>

\* what a run of the orchestrator agent does, as far as booking goes: the agent
\* may hand off to booking_agent (sdk_agents.py lines 339-346), whose tools
\* include create_booking (lines 259-264); whether it does is the model's choice
OrchestrationRuns == {<<>>, <<"book">>}

\* packages app.py lines 28-42 and 62-63: the orchestration run on the message,
\* its output sent to the user, and the test whether it mentions a plan
PackagesRun ==
    /\ app = "packages"
    /\ chat_pc = "processing"
    /\ \E run \in OrchestrationRuns, raised \in BOOLEAN, mentions_plan \in BOOLEAN :
          IF raised
          THEN /\ log' = log \o run \o <<"error">>
               /\ chat_pc' = "waiting"
          ELSE /\ log' = log \o run \o <<"present">>
               /\ chat_pc' = (IF mentions_plan THEN "ask" ELSE "waiting")
    /\ UNCHANGED <<app, handled>>
    /\ UNCHANGED <<optimizer_vars, discovery_vars, search_vars, planner_vars, service_vars>>

\* packages app.py lines 43-50
PackagesAsk ==
    /\ app = "packages"
    /\ chat_pc = "ask"
    /\ \E answer \in PackagesAnswers : log' = log \o <<"ask", answer>>
    /\ chat_pc' = "answered"
    /\ UNCHANGED <<app, handled>>
    /\ UNCHANGED <<optimizer_vars, discovery_vars, search_vars, planner_vars, service_vars>>

\* packages app.py lines 52-60: on "approve" the second orchestration run
PackagesAnswered ==
    /\ app = "packages"
    /\ chat_pc = "answered"
    /\ IF log[Len(log)] = "approve"
       THEN \E run \in OrchestrationRuns, raised \in BOOLEAN :
                log' = log \o <<"approval_run">> \o run
                           \o (IF raised THEN <<"error">> ELSE <<"approved">>)
       ELSE IF log[Len(log)] = "modify"
       THEN log' = Append(log, "describe_changes")
       ELSE log' = Append(log, "cancelled")
    /\ chat_pc' = "waiting"
    /\ UNCHANGED <<app, handled>>
    /\ UNCHANGED <<optimizer_vars, discovery_vars, search_vars, planner_vars, service_vars>>

NextChat ==
    \/ ReceiveMessage
    \/ LegacyProcess
    \/ LegacyAsk
    \/ LegacyAnswered
    \/ PackagesRun
    \/ PackagesAsk
    \/ PackagesAnswered

SpecChat == InitChat /\ [][NextChat]_vars

\* ------------------------------------------------- the server's sessions
\* server.py lines 95-96: the number of messages kept
HistoryLimit == 20

\* a history of n messages; a message is the number it was added as
History(n) == [i \in 1 .. n |-> i]

\* how a session stands when following begins: without an entry, or with a
\* history of some length up to the limit
SessionStarts ==
    {[present |-> FALSE, n |-> 0]}
        \cup {[present |-> TRUE, n |-> n] : n \in {0, HistoryLimit - 1, HistoryLimit}}

\* get_session(sid), add_to_session(sid, role, content)
GetCall(sid) == [op |-> "get", sid |-> sid, message |-> 0]

AddCall(sid, message) == [op |-> "add", sid |-> sid, message |-> message]

\* every sequence of up to MaxCalls add_to_session calls; the k-th adds
\* message 100 + k
AddSequences ==
    UNION {{[k \in 1 .. n |-> AddCall(sids[k], 100 + k)] : sids \in [1 .. n -> SessionIds]} :
              n \in 0 .. MaxCalls}

\* chat lines 149, 176, 177 for the request that thread t serves
ChatCalls(t, sid) == <<GetCall(sid), AddCall(sid, 100 * t + 1), AddCall(sid, 100 * t + 2)>>

\* the store with the given starts
SessionsStarted(start) ==
    /\ heap = (IF start["s1"].present THEN <<History(start["s1"].n)>> ELSE <<>>)
                  \o (IF start["s2"].present THEN <<History(start["s2"].n)>> ELSE <<>>)
    /\ sessions = [sid \in SessionIds |->
                      IF ~start[sid].present THEN 0
                      ELSE IF sid = "s1" \/ ~start["s1"].present THEN 1 ELSE 2]
    /\ added = [sid \in SessionIds |-> History(start[sid].n)]
    /\ call_pc = [t \in Threads |-> "idle"]
    /\ session = [t \in Threads |-> 0]
    /\ trimmed = [t \in Threads |-> 0]

\* one caller makes a sequence of add_to_session calls
InitSessions ==
    /\ OptimizerIdle
    /\ DiscoveryIdle
    /\ SearchIdle
    /\ PlannerIdle
    /\ ChatIdle
    /\ AuthIdle
    /\ ToolsIdle
    /\ HandlersIdle
    /\ \E start \in [SessionIds -> SessionStarts] : SessionsStarted(start)
    /\ \E sequence \in AddSequences : pending = [t \in Threads |-> IF t = 1 THEN sequence ELSE <<>>]

\* two /api/chat requests are served at once, each by a thread of the pool
InitRequests ==
    /\ OptimizerIdle
    /\ DiscoveryIdle
    /\ SearchIdle
    /\ PlannerIdle
    /\ ChatIdle
    /\ AuthIdle
    /\ ToolsIdle
    /\ HandlersIdle
    /\ \E start \in [SessionIds -> SessionStarts] : SessionsStarted(start)
    /\ \E sids \in [Threads -> SessionIds] : pending = [t \in Threads |-> ChatCalls(t, sids[t])]

\* the call thread t is making
Call(t) == Head(pending[t])

\* the call of thread t has returned
Finished(t) ==
    /\ pending' = [pending EXCEPT ![t] = Tail(pending[t])]
    /\ call_pc' = [call_pc EXCEPT ![t] = "idle"]

\* line 82: if session_id not in _sessions
LookUp(t) ==
    /\ call_pc[t] = "idle"
    /\ pending[t] # <<>>
    /\ call_pc' = [call_pc EXCEPT ![t] = IF sessions[Call(t).sid] = 0 THEN "create" ELSE "return"]
    /\ UNCHANGED <<heap, sessions, pending, session, trimmed, added>>
    /\ UNCHANGED <<optimizer_vars, discovery_vars, search_vars, planner_vars, chat_vars>>
    /\ UNCHANGED <<auth_vars, tool_vars, handler_vars>>

\* line 83: _sessions[session_id] = []
CreateSession(t) ==
    /\ call_pc[t] = "create"
    /\ heap' = Append(heap, <<>>)
    /\ sessions' = [sessions EXCEPT ![Call(t).sid] = Len(heap) + 1]
    /\ call_pc' = [call_pc EXCEPT ![t] = "return"]
    /\ UNCHANGED <<pending, session, trimmed, added>>
    /\ UNCHANGED <<optimizer_vars, discovery_vars, search_vars, planner_vars, chat_vars>>
    /\ UNCHANGED <<auth_vars, tool_vars, handler_vars>>

\* line 84: return _sessions[session_id], to chat line 149 or to line 88
ReturnSession(t) ==
    /\ call_pc[t] = "return"
    /\ session' = [session EXCEPT ![t] = sessions[Call(t).sid]]
    /\ IF Call(t).op = "get"
       THEN Finished(t)
       ELSE /\ call_pc' = [call_pc EXCEPT ![t] = "append"]
            /\ UNCHANGED pending
    /\ UNCHANGED <<heap, sessions, trimmed, added>>
    /\ UNCHANGED <<optimizer_vars, discovery_vars, search_vars, planner_vars, chat_vars>>
    /\ UNCHANGED <<auth_vars, tool_vars, handler_vars>>

\* lines 89-93: session.append({...})
AppendMessage(t) ==
    /\ call_pc[t] = "append"
    /\ heap' = [heap EXCEPT ![session[t]] = Append(@, Call(t).message)]
    /\ added' = [added EXCEPT ![Call(t).sid] = Append(@, Call(t).message)]
    /\ call_pc' = [call_pc EXCEPT ![t] = "trim"]
    /\ UNCHANGED <<sessions, pending, session, trimmed>>
    /\ UNCHANGED <<optimizer_vars, discovery_vars, search_vars, planner_vars, chat_vars>>
    /\ UNCHANGED <<auth_vars, tool_vars, handler_vars>>

\* the n first elements of a list
FirstOf(list, n) == SubSeq(list, 1, IF Len(list) > n THEN n ELSE Len(list))

\* the n last elements of a list
LastOf(list, n) == SubSeq(list, IF Len(list) > n THEN Len(list) - n + 1 ELSE 1, Len(list))

\* line 95 and the right-hand side of line 96: if len(session) > 20, session[-20:]
TrimSession(t) ==
    /\ call_pc[t] = "trim"
    /\ IF Len(heap[session[t]]) > HistoryLimit
       THEN /\ heap' = Append(heap, LastOf(heap[session[t]], HistoryLimit))
            /\ trimmed' = [trimmed EXCEPT ![t] = Len(heap) + 1]
            /\ call_pc' = [call_pc EXCEPT ![t] = "store"]
            /\ UNCHANGED pending
       ELSE /\ Finished(t)
            /\ UNCHANGED <<heap, trimmed>>
    /\ UNCHANGED <<sessions, session, added>>
    /\ UNCHANGED <<optimizer_vars, discovery_vars, search_vars, planner_vars, chat_vars>>
    /\ UNCHANGED <<auth_vars, tool_vars, handler_vars>>

\* line 96: _sessions[session_id] = ...
StoreTrimmed(t) ==
    /\ call_pc[t] = "store"
    /\ sessions' = [sessions EXCEPT ![Call(t).sid] = trimmed[t]]
    /\ Finished(t)
    /\ UNCHANGED <<heap, session, trimmed, added>>
    /\ UNCHANGED <<optimizer_vars, discovery_vars, search_vars, planner_vars, chat_vars>>
    /\ UNCHANGED <<auth_vars, tool_vars, handler_vars>>

NextSessions ==
    \/ \E t \in Threads : LookUp(t)
    \/ \E t \in Threads : CreateSession(t)
    \/ \E t \in Threads : ReturnSession(t)
    \/ \E t \in Threads : AppendMessage(t)
    \/ \E t \in Threads : TrimSession(t)
    \/ \E t \in Threads : StoreTrimmed(t)

SpecSessions == InitSessions /\ [][NextSessions]_vars

SpecRequests == InitRequests /\ [][NextSessions]_vars

\* ------------------------------------------------------ the API key check
\* the endpoints declared with dependencies=[Depends(verify_api_key)]
ProtectedEndpoints ==
    {"/api/chat", "/api/agent/orchestrate", "/api/agent/discover", "/api/agent/schedule",
     "/api/agent/plan"}

Endpoints == ProtectedEndpoints \cup {"/health"}

\* values of AI_SERVICE_API_KEY; "" when the variable is not set (line 56)
ConfiguredKeys == {"", "secret", "Secret"}

\* the X-API-Key header of a request: <<>> when there is none
Headers == {<<>>, <<"">>, <<"secret">>, <<"Secret">>, <<"secret ">>, <<"other">>}

\* line 68: request.headers.get("X-API-Key", "")
HeaderOrEmpty(header) == IF header = <<>> THEN "" ELSE header[1]

\* a check that lets a request without the header through
RejectedIfPresent(key, header) == key # "" /\ header # <<>> /\ header[1] # key

\* lines 64-70: whether verify_api_key raises HTTPException(401)
Rejected(key, header) == key # "" /\ HeaderOrEmpty(header) # key

InitAuth ==
    /\ OptimizerIdle
    /\ DiscoveryIdle
    /\ SearchIdle
    /\ PlannerIdle
    /\ ChatIdle
    /\ \E start \in [SessionIds -> SessionStarts] :
          /\ ~start["s2"].present
          /\ SessionsStarted(start)
    /\ pending = [t \in Threads |-> <<>>]
    /\ ToolsIdle
    /\ HandlersIdle
    /\ api_key \in ConfiguredKeys
    /\ request = [endpoint |-> "/health", header |-> <<>>]
    /\ auth_pc = "waiting"
    /\ status = 0
    /\ agent_runs = 0
    /\ served = 0

\* a request comes in
Receive ==
    /\ auth_pc = "waiting"
    /\ served < MaxRequests
    /\ \E e \in Endpoints, h \in Headers : request' = [endpoint |-> e, header |-> h]
    /\ served' = served + 1
    /\ auth_pc' = "dependencies"
    /\ UNCHANGED <<api_key, status, agent_runs>>
    /\ UNCHANGED <<optimizer_vars, discovery_vars, search_vars, planner_vars, chat_vars>>
    /\ UNCHANGED <<session_vars, tool_vars, handler_vars>>

\* the dependencies of the endpoint are resolved before its function is
\* called: verify_api_key (lines 58-70) for a protected endpoint
VerifyApiKey ==
    /\ auth_pc = "dependencies"
    /\ IF request.endpoint \in ProtectedEndpoints /\ Rejected(api_key, request.header)
       THEN /\ status' = 401
            /\ auth_pc' = "waiting"
       ELSE /\ auth_pc' = "endpoint"
            /\ UNCHANGED status
    /\ UNCHANGED <<api_key, request, agent_runs, served>>
    /\ UNCHANGED <<optimizer_vars, discovery_vars, search_vars, planner_vars, chat_vars>>
    /\ UNCHANGED <<session_vars, tool_vars, handler_vars>>

\* the endpoint function starts: chat looks its session up (line 149) and runs
\* the triage agent (line 170) before it saves the two messages (lines
\* 176-177); the other protected endpoints run their agent; /health runs none
EnterEndpoint ==
    /\ auth_pc = "endpoint"
    /\ agent_runs' = agent_runs + (IF request.endpoint = "/health" THEN 0 ELSE 1)
    /\ pending' = [pending EXCEPT ![1] = IF request.endpoint = "/api/chat"
                                          THEN ChatCalls(served, "s1")
                                          ELSE <<>>]
    /\ auth_pc' = "running"
    /\ UNCHANGED <<api_key, request, status, served>>
    /\ UNCHANGED <<heap, sessions, call_pc, session, trimmed, added>>
    /\ UNCHANGED <<optimizer_vars, discovery_vars, search_vars, planner_vars, chat_vars>>
    /\ UNCHANGED <<tool_vars, handler_vars>>

\* the endpoint function returns its response
Respond ==
    /\ auth_pc = "running"
    /\ pending[1] = <<>>
    /\ call_pc[1] = "idle"
    /\ status' = 200
    /\ auth_pc' = "waiting"
    /\ UNCHANGED <<api_key, request, agent_runs, served>>
    /\ UNCHANGED <<optimizer_vars, discovery_vars, search_vars, planner_vars, chat_vars>>
    /\ UNCHANGED <<session_vars, tool_vars, handler_vars>>

NextAuth ==
    \/ Receive
    \/ VerifyApiKey
    \/ EnterEndpoint
    \/ Respond
    \/ NextSessions

SpecAuth == InitAuth /\ [][NextAuth]_vars

\* ------------------------------------------------------ the approval limits
\* tools/approval_tools.py, check_budget_approval_limits, lines 88-135

\* the limits of lines 104-106, in PKR
CoordinatorLimit == 50000
ManagerLimit == 200000
DirectorLimit == 1000000

\* a limit is an amount or float('inf')
Finite(amount) == [inf |-> FALSE, amount |-> amount]
Infinite == [inf |-> TRUE, amount |-> 0]

\* the dict of lines 103-108, in the order it is written
limits ==
    << [role |-> "coordinator", limit |-> Finite(CoordinatorLimit)],
       [role |-> "manager", limit |-> Finite(ManagerLimit)],
       [role |-> "director", limit |-> Finite(DirectorLimit)],
       [role |-> "executive", limit |-> Infinite] >>

\* budget_amount < limit, which no amount reaches when the limit is infinite
AmountBelow(amount, limit) == limit.inf \/ amount < limit.amount

\* budget_amount <= limit
AmountWithin(amount, limit) == limit.inf \/ amount <= limit.amount

\* a < b on limits
LimitLess(a, b) == ~a.inf /\ (b.inf \/ a.amount < b.amount)

\* one item put into a list sorted by limit, after the items that do not
\* compare greater (sorted is stable)
RECURSIVE InsertByLimit(_, _)
InsertByLimit(item, sorted) ==
    IF sorted = <<>> THEN <<item>>
    ELSE IF LimitLess(item.limit, Head(sorted).limit)
         THEN <<item>> \o sorted
         ELSE <<Head(sorted)>> \o InsertByLimit(item, Tail(sorted))

\* sorted(limits.items(), key=lambda x: x[1]), line 121
RECURSIVE SortedByLimit(_)
SortedByLimit(items) ==
    IF items = <<>> THEN <<>>
    ELSE InsertByLimit(items[Len(items)], SortedByLimit(SubSeq(items, 1, Len(items) - 1)))

\* limits.get(requester_role, 0), line 110
UserLimit(requester_role) ==
    IF \E i \in 1 .. Len(limits) : limits[i].role = requester_role
    THEN limits[CHOOSE i \in 1 .. Len(limits) : limits[i].role = requester_role].limit
    ELSE Finite(0)

\* the loop of lines 121-128 over what is left of the sorted items, and the
\* return of lines 130-135 when the loop ends
RECURSIVE RequiredApprover(_, _)
RequiredApprover(budget_amount, items) ==
    IF items = <<>> THEN "executive"
    ELSE IF AmountWithin(budget_amount, Head(items).limit)
         THEN Head(items).role
         ELSE RequiredApprover(budget_amount, Tail(items))

\* lines 110-135
CheckBudgetApprovalLimits(budget_amount, requester_role) ==
    IF AmountWithin(budget_amount, UserLimit(requester_role))
    THEN [can_approve |-> TRUE,
          requires_additional_approval |-> FALSE,
          approver_level |-> requester_role]
    ELSE [can_approve |-> FALSE,
          requires_additional_approval |-> TRUE,
          approver_level |-> RequiredApprover(budget_amount, SortedByLimit(limits))]

\* the roles a call is made with: the four of the dict, the same in another
\* case, a role the dict does not have, and the empty string
RequesterRoles == {"coordinator", "manager", "director", "executive", "Manager", "intern", ""}

\* the amounts a call is made with: around zero and around each limit
BudgetAmounts ==
    {base + off : base \in {0, CoordinatorLimit, ManagerLimit, DirectorLimit},
                  off \in -MaxOff .. MaxOff}

InitApproval ==
    /\ OptimizerIdle
    /\ DiscoveryIdle
    /\ SearchIdle
    /\ PlannerIdle
    /\ ChatIdle
    /\ SessionsIdle
    /\ AuthIdle
    /\ HandlersIdle
    /\ \E amount \in BudgetAmounts, role \in RequesterRoles :
          tool_input = [tool |-> "check_budget_approval_limits",
                        budget_amount |-> amount,
                        requester_role |-> role]
    /\ tool_output = <<>>
    /\ tool_pc = "called"

\* the tool runs
RunCheckBudgetApprovalLimits ==
    /\ tool_pc = "called"
    /\ tool_input.tool = "check_budget_approval_limits"
    /\ tool_output' = <<CheckBudgetApprovalLimits(tool_input.budget_amount,
                                                  tool_input.requester_role)>>
    /\ tool_pc' = "returned"
    /\ UNCHANGED tool_input
    /\ UNCHANGED <<optimizer_vars, discovery_vars, search_vars, planner_vars, chat_vars>>
    /\ UNCHANGED <<session_vars, auth_vars, handler_vars>>

SpecApproval == InitApproval /\ [][RunCheckBudgetApprovalLimits]_vars

\* ---------------------------------------------------- the constraint check
\* tools/scheduler_tools.py, check_constraints, lines 197-259

\* an event_date is a string that strptime("%Y-%m-%d") refuses, or a date,
\* held as its distance in days from today
EventDates == {[parsed |-> FALSE, day |-> 0]} \cup {[parsed |-> TRUE, day |-> d] : d \in -1 .. 1}

\* lines 225-232: the midnight that starts the date is compared with now, so
\* today is in the past as well
DateViolations(event_date) ==
    IF ~event_date.parsed THEN << <<"Invalid date format", <<>>>> >>
    ELSE IF event_date.day <= 0 THEN << <<"Event date is in the past", <<>>>> >>
    ELSE <<>>

DateSuggestions(event_date) ==
    IF ~event_date.parsed THEN <<"Use YYYY-MM-DD format for dates">>
    ELSE IF event_date.day <= 0 THEN <<"Select a future date for the event">>
    ELSE <<>>

\* sum(vendor_costs), line 235
RECURSIVE SumOfCosts(_)
SumOfCosts(vendor_costs) ==
    IF vendor_costs = <<>> THEN 0 ELSE Head(vendor_costs) + SumOfCosts(Tail(vendor_costs))

\* total_vendor_cost > budget + 1
CostsWellOverBudget(total_vendor_cost, budget_pkr) == total_vendor_cost > budget_pkr + 1

\* total_vendor_cost > budget, line 236
CostsOverBudget(total_vendor_cost, budget_pkr) == total_vendor_cost > budget_pkr

\* lines 236-239
BudgetViolations(total_vendor_cost, budget_pkr) ==
    IF CostsOverBudget(total_vendor_cost, budget_pkr)
    THEN << <<"Vendor costs exceed budget", <<total_vendor_cost, budget_pkr>>>> >>
    ELSE <<>>

\* lines 236-243; total_vendor_cost > budget * 0.8 in tenths
BudgetSuggestions(total_vendor_cost, budget_pkr) ==
    (IF CostsOverBudget(total_vendor_cost, budget_pkr)
     THEN <<"Reduce number of vendors or negotiate lower prices",
            "Consider increasing the budget">>
     ELSE <<>>)
    \o (IF 10 * total_vendor_cost > 8 * budget_pkr
        THEN <<"Consider keeping 20% buffer for unexpected expenses">>
        ELSE <<>>)

\* lines 246-253
SizeSuggestions(attendees, duration_hours) ==
    (IF attendees > 500 /\ duration_hours > 8
     THEN <<"Large events may require additional staff and security">>
     ELSE <<>>)
    \o (IF duration_hours < 2
        THEN <<"Events shorter than 2 hours may feel rushed">>
        ELSE <<>>)
    \o (IF duration_hours > 8
        THEN <<"Events longer than 8 hours may require meal breaks">>
        ELSE <<>>)

\* lines 221-259, budget_pkr being the parameter budget; start_time and
\* location are not read
CheckConstraints(event_date, duration_hours, attendees, budget_pkr, vendor_costs) ==
    LET total_vendor_cost == SumOfCosts(vendor_costs)
        violations == DateViolations(event_date)
                      \o BudgetViolations(total_vendor_cost, budget_pkr)
        suggestions == DateSuggestions(event_date)
                       \o BudgetSuggestions(total_vendor_cost, budget_pkr)
                       \o SizeSuggestions(attendees, duration_hours)
    IN [valid |-> Len(violations) = 0,
        violations |-> violations,
        suggestions |-> suggestions]

\* the lists of costs a call is made with
VendorCosts == UNION {[1 .. n -> 0 .. MaxCost] : n \in 0 .. MaxCosts}

InitConstraints ==
    /\ OptimizerIdle
    /\ DiscoveryIdle
    /\ SearchIdle
    /\ PlannerIdle
    /\ ChatIdle
    /\ SessionsIdle
    /\ AuthIdle
    /\ HandlersIdle
    /\ \E date \in EventDates, hours \in {1, 2, 8, 9}, people \in {500, 501},
          limit \in 0 .. MaxToolBudget, costs \in VendorCosts :
          tool_input = [tool |-> "check_constraints",
                        event_date |-> date,
                        duration_hours |-> hours,
                        attendees |-> people,
                        budget |-> limit,
                        vendor_costs |-> costs]
    /\ tool_output = <<>>
    /\ tool_pc = "called"

\* the tool runs
RunCheckConstraints ==
    /\ tool_pc = "called"
    /\ tool_input.tool = "check_constraints"
    /\ tool_output' = <<CheckConstraints(tool_input.event_date,
                                         tool_input.duration_hours,
                                         tool_input.attendees,
                                         tool_input.budget,
                                         tool_input.vendor_costs)>>
    /\ tool_pc' = "returned"
    /\ UNCHANGED tool_input
    /\ UNCHANGED <<optimizer_vars, discovery_vars, search_vars, planner_vars, chat_vars>>
    /\ UNCHANGED <<session_vars, auth_vars, handler_vars>>

SpecConstraints == InitConstraints /\ [][RunCheckConstraints]_vars

\* ------------------------------------------------------ the vendor handlers
\* tools/vendor_tools.py, _get_handlers, lines 46-59.  The tools that call it
\* run inside the endpoint functions, which the server runs on the threads of
\* a pool, so calls can overlap; a step is one statement of one caller.

InitHandlers ==
    /\ OptimizerIdle
    /\ DiscoveryIdle
    /\ SearchIdle
    /\ PlannerIdle
    /\ ChatIdle
    /\ SessionsIdle
    /\ AuthIdle
    /\ ToolsIdle
    /\ HandlersIdle

\* a tool calls _get_handlers (lines 80, 139, 172, 198)
CallGetHandlers(c) ==
    /\ get_pc[c] = "idle"
    /\ get_pc' = [get_pc EXCEPT ![c] = "test"]
    /\ UNCHANGED <<portal_client, api_handler, manual_handler, instances, got>>
    /\ UNCHANGED <<optimizer_vars, discovery_vars, search_vars, planner_vars, chat_vars>>
    /\ UNCHANGED <<session_vars, auth_vars, tool_vars>>

\* line 55: if _client is None
TestClient(c) ==
    /\ get_pc[c] = "test"
    /\ get_pc' = [get_pc EXCEPT ![c] = IF portal_client = 0 THEN "client" ELSE "return"]
    /\ UNCHANGED <<portal_client, api_handler, manual_handler, instances, got>>
    /\ UNCHANGED <<optimizer_vars, discovery_vars, search_vars, planner_vars, chat_vars>>
    /\ UNCHANGED <<session_vars, auth_vars, tool_vars>>

\* line 56: _client = VendorPortalClient()
MakeClient(c) ==
    /\ get_pc[c] = "client"
    /\ instances' = instances + 1
    /\ portal_client' = instances + 1
    /\ get_pc' = [get_pc EXCEPT ![c] = "api"]
    /\ UNCHANGED <<api_handler, manual_handler, got>>
    /\ UNCHANGED <<optimizer_vars, discovery_vars, search_vars, planner_vars, chat_vars>>
    /\ UNCHANGED <<session_vars, auth_vars, tool_vars>>

\* line 57: _api_handler = ApiVendorHandler(_client)
MakeApiHandler(c) ==
    /\ get_pc[c] = "api"
    /\ instances' = instances + 1
    /\ api_handler' = instances + 1
    /\ get_pc' = [get_pc EXCEPT ![c] = "manual"]
    /\ UNCHANGED <<portal_client, manual_handler, got>>
    /\ UNCHANGED <<optimizer_vars, discovery_vars, search_vars, planner_vars, chat_vars>>
    /\ UNCHANGED <<session_vars, auth_vars, tool_vars>>

\* line 58: _manual_handler = ManualVendorHandler()
MakeManualHandler(c) ==
    /\ get_pc[c] = "manual"
    /\ instances' = instances + 1
    /\ manual_handler' = instances + 1
    /\ get_pc' = [get_pc EXCEPT ![c] = "return"]
    /\ UNCHANGED <<portal_client, api_handler, got>>
    /\ UNCHANGED <<optimizer_vars, discovery_vars, search_vars, planner_vars, chat_vars>>
    /\ UNCHANGED <<session_vars, auth_vars, tool_vars>>

\* line 59: return _api_handler, _manual_handler
ReturnHandlers(c) ==
    /\ get_pc[c] = "return"
    /\ got' = [got EXCEPT ![c] = <<[api_handler |-> api_handler,
                                    manual_handler |-> manual_handler]>>]
    /\ get_pc' = [get_pc EXCEPT ![c] = "done"]
    /\ UNCHANGED <<portal_client, api_handler, manual_handler, instances>>
    /\ UNCHANGED <<optimizer_vars, discovery_vars, search_vars, planner_vars, chat_vars>>
    /\ UNCHANGED <<session_vars, auth_vars, tool_vars>>

NextHandlers ==
    \/ \E c \in Callers : CallGetHandlers(c)
    \/ \E c \in Callers : TestClient(c)
    \/ \E c \in Callers : MakeClient(c)
    \/ \E c \in Callers : MakeApiHandler(c)
    \/ \E c \in Callers : MakeManualHandler(c)
    \/ \E c \in Callers : ReturnHandlers(c)

SpecHandlers == InitHandlers /\ [][NextHandlers]_vars

\* ------------------------------------------------- claims on the optimizer
\* The (vendor id, service id) pairs of a category, whatever their price.
Offers(cat) ==
    {<<v, s>> \in (1 .. Len(available_vendors)) \X (1 .. MaxServices + 1) :
        /\ available_vendors[v].kind = "dict"
        /\ available_vendors[v].category = cat
        /\ s <= Len(available_vendors[v].services)}

OfferPrice(o) == available_vendors[o[1]].services[o[2]]

OfferRating(o) ==
    IF available_vendors[o[1]].rating = NoRating
    THEN DefaultRating
    ELSE available_vendors[o[1]].rating

\* the offers of a category whose price is within `remaining`
Within(cat, remaining) == {o \in Offers(cat) : OfferPrice(o) <= remaining}

\* o comes before p in iteration order: vendors in pool order, then services in
\* list order
Before(o, p) == o[1] < p[1] \/ (o[1] = p[1] /\ o[2] < p[2])

\* o's score is strictly higher than p's (a zero price scores 0)
ScoresHigher(o, p) ==
    IF OfferPrice(o) = 0
    THEN FALSE
    ELSE IF OfferPrice(p) = 0
    THEN OfferRating(o) > 0
    ELSE OfferRating(o) * OfferPrice(p) > OfferRating(p) * OfferPrice(o)

\* the inner loops of the category being visited are over: the candidate held
\* in best_vendor_selection is what this category gets
Chosen == pc = "select" /\ best_vendor_selection # <<>>

ChosenOffer == <<best_vendor_selection[1].vendor_id, best_vendor_selection[1].service_id>>

VisitedCategory == required_categories[ci]

\* C1: the costs of the selections never add up to more than the original
\* budget, and remaining_budget is never negative, at any point of a run.
C1_BudgetInvariant ==
    /\ remaining_budget >= 0
    /\ SumCost(selected_vendors) <= budget
    /\ pc \in {"category", "vendor", "service", "select"}
          => remaining_budget = budget - SumCost(selected_vendors)

\* a run that selected for both categories and spent the budget to the last rupee
C1_Witness ==
    /\ pc = "returned"
    /\ Len(selected_vendors) = 2
    /\ selected_vendors[1].cost > 0
    /\ selected_vendors[2].cost > 0
    /\ SumCost(selected_vendors) = budget

\* C2: the result holds at most one selection per required category: no two
\* selections are of vendors of the same category, and every selection is of a
\* vendor of a required category.
C2_OnePerCategory ==
    /\ Len(selected_vendors) <= Len(required_categories)
    /\ \A i \in 1 .. Len(selected_vendors) :
          /\ \E k \in 1 .. Len(required_categories) :
                available_vendors[selected_vendors[i].vendor_id].category
                    = required_categories[k]
          /\ \A j \in 1 .. Len(selected_vendors) :
                i # j =>
                    available_vendors[selected_vendors[i].vendor_id].category
                        # available_vendors[selected_vendors[j].vendor_id].category

\* one selection came out of a category where two vendors offered three
\* services within the budget
C2_Witness ==
    /\ pc = "returned"
    /\ Len(selected_vendors) = 1
    /\ \E o \in Within("venue", budget), p \in Within("venue", budget),
          q \in Within("venue", budget) : o[1] # p[1] /\ q # o /\ q # p /\ o # p

\* C3: the pair chosen for a category is an offer of that category within the
\* remaining budget, and no offer of the category within the remaining budget
\* has a strictly higher score.
C3_LocallyBest ==
    Chosen =>
        /\ ChosenOffer \in Within(VisitedCategory, remaining_budget)
        /\ best_vendor_selection[1].cost = OfferPrice(ChosenOffer)
        /\ \A o \in Within(VisitedCategory, remaining_budget) :
              ~ScoresHigher(o, ChosenOffer)

\* the chosen offer replaced an earlier affordable one with a lower score, while
\* an offer that scores no lower than the chosen one was out of reach
C3_Witness ==
    /\ Chosen
    /\ \E o \in Within(VisitedCategory, remaining_budget) :
          Before(o, ChosenOffer) /\ ScoresHigher(ChosenOffer, o)
    /\ \E o \in Offers(VisitedCategory) :
          OfferPrice(o) > remaining_budget /\ ~ScoresHigher(ChosenOffer, o)

\* among the offers within the remaining budget whose score equals the chosen
\* one's, the chosen one is the first in iteration order
ChosenIsFirstOfEquals ==
    Chosen =>
        \A o \in Within(VisitedCategory, remaining_budget) :
            (~ScoresHigher(o, ChosenOffer) /\ ~ScoresHigher(ChosenOffer, o))
                => ~Before(o, ChosenOffer)

\* the chosen offer ties with a later service of the same vendor and with a
\* service of a later vendor that has another rating and another price
C4_Witness ==
    /\ Chosen
    /\ OfferPrice(ChosenOffer) > 0
    /\ \E o \in Within(VisitedCategory, remaining_budget) :
          /\ o[1] = ChosenOffer[1]
          /\ Before(ChosenOffer, o)
          /\ ~ScoresHigher(ChosenOffer, o)
    /\ \E o \in Within(VisitedCategory, remaining_budget) :
          /\ o[1] # ChosenOffer[1]
          /\ OfferPrice(o) # OfferPrice(ChosenOffer)
          /\ Before(ChosenOffer, o)
          /\ ~ScoresHigher(ChosenOffer, o)

\* C4: when candidates within the remaining budget tie on the best score, the
\* one first in iteration order is chosen, and no step replaces the candidate
\* held by one whose score is not strictly higher.
C4_FirstWinsTies ==
    /\ []ChosenIsFirstOfEquals
    /\ [][(pc = "service" /\ best_vendor_selection # <<>>
             /\ best_vendor_selection' # best_vendor_selection)
          => RGt(best_score', best_score)]_vars

\* C5: a chosen service priced 0 has score 0, and it is chosen only when no
\* offer of the category within the remaining budget has a positive price and
\* a positive rating.
C5_ZeroPriceGuard ==
    (Chosen /\ best_vendor_selection[1].cost = 0) =>
        /\ best_score[1] = 0
        /\ best_score[2] > 0
        /\ ~\E o \in Within(VisitedCategory, remaining_budget) :
              OfferPrice(o) > 0 /\ OfferRating(o) > 0

\* a free service was visited first and held, then gave way to a later service
\* with a positive price and a positive rating
C5_Witness ==
    /\ Chosen
    /\ best_vendor_selection[1].cost > 0
    /\ OfferRating(ChosenOffer) > 0
    /\ \E o \in Within(VisitedCategory, remaining_budget) :
          OfferPrice(o) = 0 /\ Before(o, ChosenOffer)

\* every service of every vendor of the required categories costs more than
\* the budget
AllAboveBudget ==
    \A k \in 1 .. Len(required_categories) :
        \A o \in Offers(required_categories[k]) : OfferPrice(o) > budget

\* C6: the allocator never raises; a category with no vendor or with no
\* affordable service gets no selection and the run goes on; when every
\* candidate is priced above the budget the result is empty and the plan's
\* total_cost is 0.
C6_NeverRaises ==
    /\ pc # "raised"
    /\ (pc = "select" /\ Within(VisitedCategory, remaining_budget) = {})
          => best_vendor_selection = <<>>
    /\ (pc = "planned" /\ AllAboveBudget) => (selected_vendors = <<>> /\ total_cost = 0)

\* C7: a second call on the same Optimizer with the same requirements and the
\* same pool returns the list the first call returned.
C7_Deterministic ==
    (pc = "returned" /\ runs >= 2) => selected_vendors = previous_result

\* the second call returned two selections, having started from what the first
\* call left behind (a depleted remaining budget)
C7_Witness ==
    /\ pc = "returned"
    /\ runs = 2
    /\ Len(selected_vendors) = 2
    /\ remaining_budget < budget

\* --------------------------------------------- claims on the discovery agent
\* a and b are equal under case-insensitive comparison
SameIgnoringCase(a, b) == Lower(a) = Lower(b)

\* the budget is set: EventRequirements.budget is a required float, and the
\* only budget the code takes for "none" is 0
BudgetIsSet(r) == r.budget # 0

LocationIsSet(r) == r.location # <<>> /\ r.location[1] # <<>>

ServesNowhereNear(v, r) ==
    \A i \in 1 .. Len(v.service_areas) : ~SameIgnoringCase(v.service_areas[i], r.location[1])

\* C8: a vendor that fails the filter for R fails it for every R' that differs
\* from R only by a strictly lower non-negative budget or by a more restrictive
\* location.
C8_FilterMonotone ==
    (phase = "filtered" /\ previous_filter # <<>> /\ previous_filter[1].result = FALSE)
        => filter_result[1] = FALSE

\* C9: for a rating in [0, 5], non-negative prices, a budget >= 0 and any
\* keyword list, the score lies in [0.0, 1.0].
C9_ScoreBounded ==
    phase = "scored" => (RLe(Zero, match_score) /\ RLe(match_score, One))

\* a perfect vendor within budget scored exactly 1.0 on two keywords
C9_Witness ==
    /\ phase = "scored"
    /\ REq(match_score, One)
    /\ Len(search_keywords) = 2
    /\ BudgetIsSet(event_requirements)

\* C10, as worded: the filter fails exactly when the vendor is unavailable, or
\* the budget is set and pricing_min exceeds it, or the location is set and
\* non-empty, matches no service area ignoring case, and no service area is the
\* string "all".
C10_FilterExactAsWorded ==
    phase = "filtered" =>
        (filter_result[1] = FALSE <=>
            \/ ~vendor_profile.is_available
            \/ BudgetIsSet(event_requirements)
                  /\ vendor_profile.pricing_min > event_requirements.budget
            \/ /\ LocationIsSet(event_requirements)
               /\ ServesNowhereNear(vendor_profile, event_requirements)
               /\ ~InList(Wildcard, vendor_profile.service_areas))

\* C10, amended: the wildcard too is recognised ignoring case ("ALL", "All").
C10_FilterExact ==
    phase = "filtered" =>
        (filter_result[1] = FALSE <=>
            \/ ~vendor_profile.is_available
            \/ BudgetIsSet(event_requirements)
                  /\ vendor_profile.pricing_min > event_requirements.budget
            \/ /\ LocationIsSet(event_requirements)
               /\ ServesNowhereNear(vendor_profile, event_requirements)
               /\ \A i \in 1 .. Len(vendor_profile.service_areas) :
                     ~SameIgnoringCase(vendor_profile.service_areas[i], Wildcard))

\* a vendor whose pricing_min equals the budget passed for a location none of
\* its areas names, through a wildcard written in capitals
C10_Witness ==
    /\ phase = "filtered"
    /\ filter_result[1] = TRUE
    /\ BudgetIsSet(event_requirements)
    /\ vendor_profile.pricing_min = event_requirements.budget
    /\ LocationIsSet(event_requirements)
    /\ ServesNowhereNear(vendor_profile, event_requirements)
    /\ ~InList(Wildcard, vendor_profile.service_areas)

\* twice the amount by which the average price exceeds the budget
TwiceOverage(v, r) == v.pricing_min + v.pricing_max - 2 * r.budget

\* C12: the price-fit sub-score is 0.1 when the budget is unset, 0.2 when the
\* average price is at most the budget, and otherwise 0.2 less 0.2 times the
\* overage as a fraction of the budget, which is 0 when the overage equals the
\* budget, and 0 rather than negative for any larger overage.
C12_PriceFit ==
    phase = "scored" =>
        /\ ~BudgetIsSet(event_requirements) => REq(price_score, Frac(1, 10))
        /\ (BudgetIsSet(event_requirements)
               /\ TwiceOverage(vendor_profile, event_requirements) <= 0)
              => REq(price_score, Frac(2, 10))
        /\ (BudgetIsSet(event_requirements)
               /\ TwiceOverage(vendor_profile, event_requirements) > 0)
              => /\ RLe(Zero, price_score)
                 /\ TwiceOverage(vendor_profile, event_requirements)
                        >= 2 * event_requirements.budget
                      => REq(price_score, Zero)
                 /\ TwiceOverage(vendor_profile, event_requirements)
                        < 2 * event_requirements.budget
                      => REq(price_score,
                             RSub(Frac(2, 10),
                                  Frac(2 * TwiceOverage(vendor_profile, event_requirements),
                                       10 * 2 * event_requirements.budget)))

\* a vendor whose average price is more than twice the budget got a price
\* score of 0, where the unclamped formula is negative
C12_Witness ==
    /\ phase = "scored"
    /\ BudgetIsSet(event_requirements)
    /\ TwiceOverage(vendor_profile, event_requirements) > 2 * event_requirements.budget
    /\ REq(price_score, Zero)

\* the strings of a group are all in the returned collection
GroupReturned(group) == \A i \in 1 .. Len(group) : BagIn(group[i], keyword_result)

\* C13: the returned collection holds no string twice, holds the lower-cased
\* event type and every lower-cased preference, and holds the whole group of
\* each of "wedding", "birthday", "corporate" that the lower-cased event type
\* contains.
C13_KeywordGroups ==
    phase = "extracted" =>
        /\ \A k \in BagToSet(keyword_result) : CopiesIn(k, keyword_result) = 1
        /\ BagIn(Lower(event_requirements.event_type), keyword_result)
        /\ \A i \in 1 .. Len(event_requirements.preferences) :
              BagIn(Lower(event_requirements.preferences[i]), keyword_result)
        /\ InString(Wedding, Lower(event_requirements.event_type))
              => GroupReturned(WeddingKeywords)
        /\ InString(Birthday, Lower(event_requirements.event_type))
              => GroupReturned(BirthdayKeywords)
        /\ InString(Corporate, Lower(event_requirements.event_type))
              => GroupReturned(CorporateKeywords)

\* ------------------------------------------------ claims on search_vendors
\* the vendor passes the filter of section 4.1: it is available, its minimum
\* price is within a set budget, and it serves a set location (by name or by the
\* wildcard, ignoring case)
PassesVendorFilter(v, r) ==
    /\ v.is_available
    /\ BudgetIsSet(r) => v.pricing_min <= r.budget
    /\ LocationIsSet(r) =>
          \E i \in 1 .. Len(v.service_areas) :
              \/ SameIgnoringCase(v.service_areas[i], r.location[1])
              \/ SameIgnoringCase(v.service_areas[i], Wildcard)

\* the vendors of the list search_vendors worked on that a result names
VendorsOf(selection) ==
    {i \in 1 .. Len(vendors) : vendors[i].vendor_id = selection.vendor_id}

\* C11: search_vendors never returns a vendor that fails the filter, whether
\* the vendors came from the database or from the samples; with location
\* "Karachi" no vendor that serves only "Lahore" is in the results.
C11_ResultsPassFilter ==
    search_pc = "returned" =>
        \A i \in 1 .. Len(results) :
            /\ VendorsOf(results[i]) # {}
            /\ \A k \in VendorsOf(results[i]) :
                  /\ PassesVendorFilter(vendors[k], event_requirements)
                  /\ event_requirements.location = <<Karachi>>
                        => vendors[k].service_areas # <<Lahore>>

\* the database gave nothing for "Karachi", so the samples were searched:
\* vendors were returned, and the sample venue that serves only "Lahore" is
\* not one of them
C11_Witness ==
    /\ search_pc = "returned"
    /\ db_mode = "connected"
    /\ event_requirements.location = <<Karachi>>
    /\ vendors = sample_vendors
    /\ \E k \in 1 .. Len(vendors) : vendors[k].service_areas = <<Lahore>>
    /\ results # <<>>
    /\ \A i \in 1 .. Len(results) : results[i].vendor_id # "venue_001"

\* the call of the repository failed: it raised, or it gave an empty list
RetrievalFailed ==
    db_answer # <<>> /\ (db_answer[1].raised \/ db_answer[1].records = <<>>)

\* C18: when the database search raises or returns an empty list, search_vendors
\* goes on with SAMPLE_VENDORS: it scores sample vendors and returns a list of
\* selections of sample vendors.
C18_RetrievalRecovered ==
    RetrievalFailed =>
        /\ search_pc \in {"fetched", "scored", "returned"}
        /\ vendors = sample_vendors
        /\ \A i \in 1 .. Len(scored_vendors) :
              \E k \in 1 .. Len(sample_vendors) : scored_vendors[i].vendor = sample_vendors[k]
        /\ \A i \in 1 .. Len(results) :
              \E k \in 1 .. Len(sample_vendors) :
                  results[i].vendor_id = sample_vendors[k].vendor_id

\* the repository raised, and search_vendors returned selections of samples
C18_Witness ==
    /\ search_pc = "returned"
    /\ db_answer # <<>>
    /\ db_answer[1].raised
    /\ results # <<>>

\* C19: the cost of every result of search_vendors lies within its vendor's
\* price range, pricing_min <= cost <= pricing_max.
C19_CostWithinRange ==
    search_pc = "returned" =>
        \A i \in 1 .. Len(results) :
            \A k \in VendorsOf(results[i]) :
                /\ RLe(Frac(vendors[k].pricing_min, 1), results[i].cost)
                /\ RLe(results[i].cost, Frac(vendors[k].pricing_max, 1))

\* --------------------------------------------------- claims on plan_event
\* The cost of a selection.  A selection of the legacy planner has no cost
\* field; what the legacy optimizer charged for it is the placeholder price.
CostOf(selection) == IF "cost" \in DOMAIN selection THEN selection.cost ELSE LegacyPrice

RECURSIVE CostsAdded(_)
CostsAdded(selected) ==
    IF selected = <<>> THEN 0 ELSE CostOf(selected[1]) + CostsAdded(Tail(selected))

C15_PlanWithinBudget ==
    pc = "planned" => total_cost <= event_requirements.budget

\* the discovery agent ran and found nothing, the handlers gave an API vendor
\* and a manual one, and the plan selected both
C15_Witness ==
    /\ pc = "planned"
    /\ search_pc = "returned"
    /\ Len(selected_vendors) = 2
    /\ \E i, j \in 1 .. Len(selected_vendors) :
          /\ vendor_origin[selected_vendors[i].vendor_id] = "api"
          /\ vendor_origin[selected_vendors[j].vendor_id] = "manual"
    /\ total_cost > 0

\* C16: every vendor in the selected_vendors of a plan went through the filter
\* of the discovery agent: it is one of the vendors search_vendors returned.
C16_FilteredBeforeAllocated ==
    (pc = "planned" /\ planner = "packages") =>
        \A i \in 1 .. Len(selected_vendors) :
            vendor_origin[selected_vendors[i].vendor_id] = "discovery"

\* -------------------------------------------------------- claim on inputs
\* the steps in which plan_event itself builds the list it will hand over
BuildingVendorList == pc \in {"discover", "supplement", "legacy"}

\* C17: no step of search_vendors (with the _matches_filters and
\* _calculate_score calls in it) or of optimize_schedule changes the vendor
\* pool it was given (SAMPLE_VENDORS, the list being scored, the optimizer's
\* available_vendors with their services) or the requirements object.
C17_InputsUnchanged ==
    [][/\ sample_vendors' = sample_vendors
       /\ event_requirements' = event_requirements
       /\ budget' = budget
       /\ api_catalogue' = api_catalogue
       /\ manual_vendors' = manual_vendors
       /\ search_pc \in {"fetched", "scored"} => vendors' = vendors
       /\ ~BuildingVendorList => available_vendors' = available_vendors]_vars

\* search_vendors went over SAMPLE_VENDORS and filtered, scored and sorted
\* them, the optimizer then allocated from the handlers' vendors, and the
\* samples, the requirements and the optimizer's list are as they were given
C17_Witness ==
    /\ pc = "planned"
    /\ search_pc = "returned"
    /\ selected_vendors # <<>>
    /\ vendors = SAMPLE_VENDORS
    /\ Len(scored_vendors) < Len(vendors)
    /\ sample_vendors = SAMPLE_VENDORS
    /\ event_requirements \in PlanRequirements
    /\ budget = event_requirements.budget
    /\ Len(available_vendors) = Len(vendor_origin)

\* -------------------------------------------------- claim on the chat flow
\* C20: for the message being handled, every booking step comes after the plan
\* was presented and the user answered the approval prompt with "approve"; after
\* "reject", "modify" or no answer there is no booking step at all.
C20_BookingAfterApproval ==
    /\ \A i \in 1 .. Len(log) :
          log[i] = "book" =>
              \E j, k \in 1 .. i - 1 :
                  j < k /\ log[j] = "present" /\ log[k] = "approve"
    /\ \A i \in 1 .. Len(log) :
          log[i] \in {"reject", "modify", "none"} =>
              \A j \in 1 .. Len(log) : log[j] # "book"

\* ------------------------------------------ further claims on the optimizer
\* the place of a selection's category in required_categories
CategoryPlace(selection) ==
    CHOOSE k \in 1 .. Len(required_categories) : required_categories[k] = selection.reason[2]

\* the selections are in category-list order
InCategoryOrder(selected) ==
    \A i, j \in 1 .. Len(selected) :
        i < j => CategoryPlace(selected[i]) < CategoryPlace(selected[j])

\* C21: the categories are visited in list order, one after the other; a step
\* only ever appends to the selections made so far, leaving them as they are;
\* and the selections are always in category-list order, none for a category
\* that has not been visited yet.
C21_NonBacktracking ==
    [][/\ ci' \in {ci, ci + 1}
       /\ Len(selected_vendors') \in {Len(selected_vendors), Len(selected_vendors) + 1}
       /\ SubSeq(selected_vendors', 1, Len(selected_vendors)) = selected_vendors
       /\ InCategoryOrder(selected_vendors')
       /\ \A i \in 1 .. Len(selected_vendors') :
             CategoryPlace(selected_vendors'[i]) < ci']_vars

\* a budget that the venue used up: the venue chosen first stays although no
\* caterer is affordable any more, where a cheaper venue would have left room
C21_Witness ==
    /\ pc = "returned"
    /\ Len(selected_vendors) = 1
    /\ selected_vendors[1].reason[2] = "venue"
    /\ remaining_budget < budget
    /\ \E i \in 1 .. Len(available_vendors) :
          /\ available_vendors[i].category = "catering"
          /\ \E k \in 1 .. Len(available_vendors[i].services) :
                /\ available_vendors[i].services[k] > remaining_budget
                /\ available_vendors[i].services[k] <= budget

\* where the loops of optimize_schedule stand: the category; whether its vendor
\* loop has not begun, runs or has ended; the vendor; the service
LoopPosition ==
    <<ci,
      CASE pc = "category" -> 0 [] pc = "select" -> 2 [] OTHER -> 1,
      IF pc \in {"vendor", "service"} THEN vi ELSE 0,
      IF pc = "service" THEN si ELSE 0>>

\* lexicographic order on positions
PositionBefore(p, q) ==
    \E k \in 1 .. Len(p) : p[k] < q[k] /\ \A j \in 1 .. k - 1 : p[j] = q[j]

\* the call is inside its loops
InLoops == pc \in {"category", "vendor", "service", "select"}

\* C22: optimize_schedule comes to an end on every pool, by its return when the
\* pool holds dicts; every step taken inside its loops moves the loop position
\* forward, so that no category and no (vendor, service) pair is visited twice,
\* and the position never leaves the pool.
C22_Terminates ==
    /\ <>(pc \in {"returned", "raised"})
    /\ (\A i \in 1 .. Len(available_vendors) : available_vendors[i].kind = "dict")
          => <>(pc = "returned")
    /\ [][InLoops => (InLoops' => PositionBefore(LoopPosition, LoopPosition'))]_vars
    /\ [](InLoops => /\ ci <= Len(required_categories) + 1
                     /\ vi <= Len(available_vendors) + 1
                     /\ si <= MaxServices + 1)

\* the call returned after going through two vendors of one category, the
\* second with two services
C22_Witness ==
    /\ pc = "returned"
    /\ runs = 1
    /\ Len(vendors_by_category["catering"]) = 2
    /\ Len(available_vendors[2].services) = 2
    /\ ci = Len(required_categories) + 1
    /\ vi = 3
    /\ si = 3

\* what was left of the budget when the category of place k was visited: the
\* budget less the costs of the selections made for the categories before it
LeftWhenVisited(k) ==
    budget - SumCost(SelectSeq(selected_vendors, LAMBDA s : CategoryPlace(s) < k))

\* some vendor of the category has a rating in [0, 5] and a service that the
\* amount can pay
OffersWithin(category, amount) ==
    \E i \in 1 .. Len(available_vendors) :
        /\ available_vendors[i].category = category
        /\ Rating(available_vendors[i]) \in 0 .. 5
        /\ \E k \in 1 .. Len(available_vendors[i].services) :
              available_vendors[i].services[k] <= amount

\* C28: when optimize_schedule has returned, every required category for which,
\* when it was visited, some vendor with a rating in [0, 5] offered a service
\* within the remaining budget has a selection in the result.
C28_CompletePerCategory ==
    pc = "returned" =>
        \A k \in 1 .. Len(required_categories) :
            OffersWithin(required_categories[k], LeftWhenVisited(k)) =>
                \E i \in 1 .. Len(selected_vendors) :
                    selected_vendors[i].reason[2] = required_categories[k]

\* a caterer of rating 0 whose only affordable service is free (score 0) is
\* selected after the venue took part of the budget
C28_Witness ==
    /\ pc = "returned"
    /\ Len(selected_vendors) = 2
    /\ selected_vendors[1].cost > 0
    /\ selected_vendors[2].cost = 0
    /\ \A i \in 1 .. Len(available_vendors) :
          available_vendors[i].category = "catering" =>
              /\ available_vendors[i].rating = 0
              /\ \E k \in 1 .. Len(available_vendors[i].services) :
                    available_vendors[i].services[k] > LeftWhenVisited(2)

\* -------------------------------------------------- claim on the ranking
\* the place in the source of the vendor of a selection or of a scored entry
SourcePlace(vendor_id) ==
    CHOOSE i \in 1 .. Len(vendors) : vendors[i].vendor_id = vendor_id

\* the vendors of the source that passed the filter (line 131) and were scored
PassedFilter == {SourcePlace(scored_vendors[n].vendor.vendor_id) : n \in 1 .. Len(scored_vendors)}

\* the score line 133 gave to the vendor at a place of the source
ScoreAt(place) ==
    LET n == CHOOSE n \in 1 .. Len(scored_vendors) :
                 scored_vendors[n].vendor = vendors[place]
    IN  scored_vendors[n].score

\* vendor b of the source is to come before vendor a: its score is higher, or
\* it is the same and b stands earlier in the source
Outranks(b, a) ==
    \/ RGt(ScoreAt(b), ScoreAt(a))
    \/ REq(ScoreAt(b), ScoreAt(a)) /\ b < a

\* C23: search_vendors returns min(top_k, number of vendors that passed the
\* filter) selections; the selection at place p is of the vendor that exactly
\* p - 1 vendors that passed outrank, so the results are the top_k best by
\* score, in non-increasing order of score, ties in source order.
C23_TopKByScore ==
    search_pc = "returned" =>
        /\ PassedFilter = {i \in 1 .. Len(vendors) :
                              MatchesFilters(vendors[i], event_requirements)}
        /\ Len(results) <= top_k
        /\ Len(results) = (IF Cardinality(PassedFilter) < top_k
                            THEN Cardinality(PassedFilter) ELSE top_k)
        /\ \A p \in 1 .. Len(results) :
              /\ SourcePlace(results[p].vendor_id) \in PassedFilter
              /\ Cardinality({b \in PassedFilter :
                                Outranks(b, SourcePlace(results[p].vendor_id))}) = p - 1
        /\ \A p, q \in 1 .. Len(results) :
              p < q => RLe(ScoreAt(SourcePlace(results[q].vendor_id)),
                           ScoreAt(SourcePlace(results[p].vendor_id)))

\* two vendors that passed have the same score, the earlier one of the source
\* is the last one returned, and the later one is cut off by top_k
C23_Witness ==
    /\ search_pc = "returned"
    /\ Cardinality(PassedFilter) > top_k
    /\ Len(results) = top_k
    /\ \E b \in PassedFilter :
          /\ b > SourcePlace(results[top_k].vendor_id)
          /\ REq(ScoreAt(b), ScoreAt(SourcePlace(results[top_k].vendor_id)))

\* ------------------------------------------------- claims on the sessions
\* the history stored for a session
HistoryOf(sid) == heap[sessions[sid]]

\* no call is under way
Quiet == \A t \in Threads : call_pc[t] = "idle"

\* the messages most recently added, at most `limit` of them, oldest first
MostRecent(messages, limit) ==
    LET kept == IF Len(messages) < limit THEN Len(messages) ELSE limit
    IN  [i \in 1 .. kept |-> messages[Len(messages) - kept + i]]

\* C24: between add_to_session calls every stored history holds at most 20
\* messages, and they are the last ones added for the session, in the order
\* they were added.
C24_HistoryBounded ==
    Quiet =>
        \A sid \in SessionIds :
            sessions[sid] # 0 =>
                /\ Len(HistoryOf(sid)) <= HistoryLimit
                /\ HistoryOf(sid) = MostRecent(added[sid], HistoryLimit)

\* three messages were added to a session that held 19: the two oldest are gone
C24_Witness ==
    /\ Quiet
    /\ pending[1] = <<>>
    /\ Len(added["s1"]) = HistoryLimit + 2
    /\ Len(HistoryOf("s1")) = HistoryLimit
    /\ HistoryOf("s1")[1] = 3
    /\ HistoryOf("s1")[HistoryLimit] = 103

\* the two requests have been served
BothServed == \A t \in Threads : pending[t] = <<>> /\ call_pc[t] = "idle"

\* C29: when two /api/chat requests on the same session id have both been
\* served, however their steps interleaved, the session's history is the last
\* 20 of the messages that were passed to add_to_session: none is missing
\* other than the oldest beyond 20, so the user and assistant messages of both
\* requests are there.
C29_NoMessageLost ==
    BothServed =>
        \A sid \in SessionIds :
            sessions[sid] # 0 =>
                /\ \A i \in 1 .. Len(MostRecent(added[sid], HistoryLimit)) :
                      InList(MostRecent(added[sid], HistoryLimit)[i], HistoryOf(sid))
                /\ \A t \in Threads :
                      (\E k \in 1 .. Len(added[sid]) : added[sid][k] = 100 * t + 1) =>
                          /\ InList(100 * t + 1, HistoryOf(sid))
                          /\ InList(100 * t + 2, HistoryOf(sid))

\* ------------------------------------------------ claim on the API key
\* the request being served lacks the configured key
LacksKey ==
    /\ request.endpoint \in ProtectedEndpoints
    /\ api_key # ""
    /\ request.header # <<api_key>>

\* C25: with a key configured, a request to a protected endpoint without the
\* header or with another value is answered 401 by the step that checks it,
\* which starts no agent and leaves the sessions alone, and such a request is
\* never inside an endpoint function; with no key configured every request
\* goes on to its endpoint function.
C25_KeyRequired ==
    /\ [][(auth_pc = "dependencies" /\ LacksKey) =>
              /\ status' = 401
              /\ auth_pc' = "waiting"
              /\ agent_runs' = agent_runs
              /\ session_vars' = session_vars]_vars
    /\ [][(auth_pc = "dependencies" /\ api_key = "") => auth_pc' = "endpoint"]_vars
    /\ [](auth_pc \in {"endpoint", "running"} => ~LacksKey)
    /\ [][(agent_runs' # agent_runs \/ session_vars' # session_vars) => ~LacksKey]_vars

\* a chat request with the right key was served and changed its session, and
\* the next one, whose key differs only in case, was answered 401
C25_Witness ==
    /\ api_key = "secret"
    /\ served = 2
    /\ auth_pc = "waiting"
    /\ request = [endpoint |-> "/api/chat", header |-> <<"Secret">>]
    /\ status = 401
    /\ agent_runs = 1
    /\ added["s1"] # <<>>

\* ------------------------------------------- claim on the approval limits
\* budget_amount is within what the role may approve: 50,000 for a
\* coordinator, 200,000 for a manager, 1,000,000 for a director, anything for
\* an executive, 0 for any other role
WithinRole(budget_amount, role) ==
    CASE role = "coordinator" -> budget_amount <= 50000
      [] role = "manager" -> budget_amount <= 200000
      [] role = "director" -> budget_amount <= 1000000
      [] role = "executive" -> TRUE
      [] OTHER -> budget_amount <= 0

\* the role with the smallest limit that is at least budget_amount
SmallestSufficient(budget_amount) ==
    IF WithinRole(budget_amount, "coordinator") THEN "coordinator"
    ELSE IF WithinRole(budget_amount, "manager") THEN "manager"
    ELSE IF WithinRole(budget_amount, "director") THEN "director"
    ELSE "executive"

\* C26: check_budget_approval_limits answers can_approve exactly when the
\* amount is within the limit of the requester's role (0 for an unknown
\* role); otherwise it answers requires_additional_approval with, as
\* approver_level, the role with the smallest limit that is at least the
\* amount.
C26_ApprovalLimits ==
    (tool_pc = "returned" /\ tool_input.tool = "check_budget_approval_limits") =>
        LET budget_amount == tool_input.budget_amount
            result == tool_output[1]
        IN /\ result.can_approve <=> WithinRole(budget_amount, tool_input.requester_role)
           /\ ~result.can_approve =>
                  /\ result.requires_additional_approval
                  /\ result.approver_level = SmallestSufficient(budget_amount)

\* a manager asked for one rupee more than a manager may approve and was
\* sent to a director
C26_Witness ==
    /\ tool_pc = "returned"
    /\ tool_input = [tool |-> "check_budget_approval_limits",
                     budget_amount |-> 200001,
                     requester_role |-> "manager"]
    /\ tool_output = <<[can_approve |-> FALSE,
                        requires_additional_approval |-> TRUE,
                        approver_level |-> "director"]>>

\* ------------------------------------------- claim on the constraint check
\* the first n of a list of costs, added up
RECURSIVE TotalOfFirst(_, _)
TotalOfFirst(costs, n) == IF n = 0 THEN 0 ELSE TotalOfFirst(costs, n - 1) + costs[n]

\* the costs of the call add up to more than its budget
CostsExceedBudget ==
    TotalOfFirst(tool_input.vendor_costs, Len(tool_input.vendor_costs)) > tool_input.budget

\* C27: check_constraints answers valid exactly when it lists no violation,
\* and when the vendor costs add up to more than the budget it lists the
\* budget violation; so a valid answer means the costs are within the budget.
C27_ValidWithinBudget ==
    (tool_pc = "returned" /\ tool_input.tool = "check_constraints") =>
        LET result == tool_output[1]
        IN /\ result.valid <=> result.violations = <<>>
           /\ CostsExceedBudget =>
                  /\ ~result.valid
                  /\ \E i \in 1 .. Len(result.violations) :
                        result.violations[i][1] = "Vendor costs exceed budget"
           /\ result.valid => ~CostsExceedBudget

\* an event tomorrow whose two vendors cost one more than the budget is not valid
C27_Witness ==
    /\ tool_pc = "returned"
    /\ tool_input.tool = "check_constraints"
    /\ tool_input.event_date = [parsed |-> TRUE, day |-> 1]
    /\ tool_input.vendor_costs = <<2, 2>>
    /\ tool_input.budget = 3
    /\ ~tool_output[1].valid
    /\ Len(tool_output[1].violations) = 1

\* ------------------------------------------- claim on the vendor handlers
\* C30: every call of _get_handlers, overlapping or not, returns an API
\* handler and a manual handler that are not None, and all calls return the
\* same two instances.
C30_SameHandlers ==
    \A c \in Callers :
        got[c] # <<>> =>
            /\ got[c][1].api_handler # 0
            /\ got[c][1].manual_handler # 0
            /\ \A d \in Callers : got[d] # <<>> => got[d] = got[c]

====
